---- MODULE Spec2Model ----
(***************************************************************************)
(* Client-side transaction engine of couchbase-transactions-cxx: the       *)
(* attempt state machine (attempt_context_impl), the runner                 *)
(* (transactions::run), the lost-attempt cleanup (atr_cleanup_entry) and    *)
(* the storage substrate they talk to, as one state machine.               *)
(*                                                                         *)
(* Every action is one interaction with the key-value store together with  *)
(* the local computation that leads to it, so that the steps of different  *)
(* attempts and of cleanup interleave exactly where the source suspends.   *)
(***************************************************************************)
EXTENDS Integers, Sequences, FiniteSets, TLC

\* ---------------------------------------------------------------- bounds

\* Data operations (get, insert, replace, remove) one body may issue.
MaxOps == 2

\* The operations the body of a transaction that runs alone may call.
MaxSoloOps == 3

\* The operations the body of a transaction may call when it goes on after its
\* commit: get, remove, commit and one more.
MaxLateOps == 4

\* The documents one attempt stages across buckets and collections.
MaxStaged == 2

\* The latest reading of the steady clock of the cleanup queue.
MaxNow == 2

\* Writes of other parties to the documents an entry under cleanup lists.
MaxOther == 1

\* Latest time at which the second of two transactions on different documents
\* starts: late enough for the first one to have expired beyond the cleanup margin.
MaxLateStart == 2

\* Storage errors injected in one behaviour.
MaxFaults == 1

\* The latest time at which run is called.
MaxStart == 1

\* Rounds of the exp_delay pacer before it raises retry_operation_timeout.
MaxDelay == 1

\* The largest number of retries retry_op_exponential_backoff is called with (the
\* value of ExpBackoffMaxAttempts.WillStopAtMax).
MaxRetries == 20

\* Pool::max_size of the pool (the value of PoolTests.GetWillWait).
PoolSize == 2

\* ------------------------------------------------------------- universes

\* transaction_config::expiration_time, in ticks of the clock; the safety margin of
\* cleanup is one tick.
Expiry == 2

Txns == {"t1", "t2"}
Docs == {"a", "b"}

\* The threads that share the pool.
Threads == {"th1", "th2", "th3"}

\* The mutations the body of one attempt issues without waiting for one another.
Mutations == {"m1", "m2"}

Kinds == {"insert", "replace", "remove"}

States == {"NOT_STARTED", "PENDING", "ABORTED", "COMMITTED", "COMPLETED", "ROLLED_BACK"}

\* Error classes a storage response can be mapped to.
ErrorClasses ==
  {"FAIL_EXPIRY", "FAIL_DOC_NOT_FOUND", "FAIL_DOC_ALREADY_EXISTS", "FAIL_PATH_NOT_FOUND",
   "FAIL_PATH_ALREADY_EXISTS", "FAIL_CAS_MISMATCH", "FAIL_TRANSIENT", "FAIL_AMBIGUOUS",
   "FAIL_ATR_FULL", "FAIL_WRITE_WRITE_CONFLICT", "FAIL_HARD", "FAIL_OTHER"}

\* Classes the network or the server can produce whatever the document state.
InjectedClasses == {"FAIL_AMBIGUOUS", "FAIL_TRANSIENT", "FAIL_HARD", "FAIL_EXPIRY"}

VARIABLES
  store,                 \* [Docs -> document]: the bucket
  atr,                   \* [Txns -> ATR entry]: attempts.<attempt id> of the ATR document
  hadEntry,              \* [Txns -> BOOLEAN]: an ATR entry of the attempt was stored at some time
  clock,                 \* the time, in expiry levels
  attempts,              \* [Txns -> Nat]: size of transaction_context::attempts_
  start,                 \* [Txns -> Nat]: transaction_context::start_time_client_
  state,                 \* [Txns -> States]: attempt_state of the current attempt
  is_done,               \* [Txns -> BOOLEAN]: attempt_context_impl::is_done_
  atr_id,                \* [Txns -> BOOLEAN]: attempt_context_impl::atr_id_ has a value
  expiry_overtime_mode,  \* [Txns -> BOOLEAN]
  staged_mutations,      \* [Txns -> Seq(staged mutation)]
  pc,                    \* [Txns -> control point of run / of the operation in progress]
  cur,                   \* [Txns -> the operation in progress]
  got,                   \* [Txns -> [Docs -> last transaction_get_result of the body]]
  outcome,               \* [Txns -> how run ended]
  hist,                  \* [Txns -> ghost record of what the attempt and its body did]
  faults,                \* storage errors injected so far
  cleaner,               \* the lost-attempt cleanup worker: the entry it is cleaning
  backoff,               \* one call of retry_op_exponential_backoff
  pool,                  \* one Pool and the threads that use it
  async,                 \* one attempt whose body issues its mutations concurrently
  staging,               \* one attempt on documents of several buckets and collections
  cleanup_queue,         \* one atr_cleanup_queue and the threads that use it
  sweep                  \* one ATR entry cleaned by two cleanup runs, in single requests

vars == <<store, atr, hadEntry, clock, attempts, start, state, is_done, atr_id, expiry_overtime_mode,
          staged_mutations, pc, cur, got, outcome, hist, faults, cleaner, backoff, pool, async,
          staging, cleanup_queue, sweep>>

\* The state of the utilities the transactions of this model do not go through.
utilities == <<backoff, pool, async, staging, cleanup_queue, sweep>>

\* The state of the transactions, of the bucket and of cleanup.
engine == <<store, atr, hadEntry, clock, attempts, start, state, is_done, atr_id,
            expiry_overtime_mode, staged_mutations, pc, cur, got, outcome, hist, faults,
            cleaner>>

\* ------------------------------------------------------------ documents

\* txn.* xattrs of a document; txn = "-" when the document carries none.
NoLink == [txn |-> "-", op |-> "-", stgd |-> 0]

Link(t, op, content) == [txn |-> t, op |-> op, stgd |-> content]

\* A document: st is "none" (no such key), "tomb" (deleted, xattrs only) or "live";
\* body 0 is the empty body.
Doc(st, body, cas, link) == [st |-> st, body |-> body, cas |-> cas, link |-> link]

\* What a read outside any transaction returns: the body, or 0 for not found.
PlainGet(d) == IF store[d].st = "live" THEN store[d].body ELSE 0

\* transaction_links predicates over the txn.* xattrs of a fetched document.
is_document_in_transaction(link) == link.txn # "-"

has_staged_write(link) == link.txn # "-"

is_document_being_removed(link) == link.op = "remove"

has_staged_content(link) == link.stgd # 0

\* A transaction_get_result; found = FALSE stands for the empty optional.
Result(cas, content, link, deleted) ==
  [found |-> TRUE, cas |-> cas, content |-> content, link |-> link, deleted |-> deleted]

NoResult == [found |-> FALSE, cas |-> 0, content |-> 0, link |-> NoLink, deleted |-> FALSE]

\* transaction_get_result::create_from(lookup_in response) of document d.
FetchedDoc(d) == Result(store[d].cas, store[d].body, store[d].link, store[d].st = "tomb")

\* ------------------------------------------------------------------ ATR

\* An entry of the ATR: ts is the time of its start timestamp (0 when it has none).
NoEntry == [status |-> "NONE", ts |-> 0, ins |-> <<>>, rep |-> <<>>, rem |-> <<>>]

\* The ATR document holds an entry for attempt t (attempts.<id of t>).
HasEntry(t) == atr[t].status # "NONE"

\* transaction_context::has_expired_client_side: elapsed time exceeds the expiration.
has_expired_client_side(t) == clock - start[t] >= Expiry

\* atr_entry::has_expired(safety_margin): the age of the entry exceeds the
\* expiration, or the expiration and the safety margin of cleanup.
has_expired(entry, with_margin) ==
  clock - entry.ts >= Expiry + (IF with_margin THEN 1 ELSE 0)

\* --------------------------------------------------------------- errors

\* transaction_operation_failed and its flags.
Err(ec) ==
  [ec |-> ec, retry |-> FALSE, no_rollback |-> FALSE, expired |-> FALSE,
   ambiguous |-> FALSE, failed_post_commit |-> FALSE]

NoErr == Err("-")

retry(e) == [e EXCEPT !.retry = TRUE]

no_rollback(e) == [e EXCEPT !.no_rollback = TRUE]

expired(e) == [e EXCEPT !.expired = TRUE]

ambiguous(e) == [e EXCEPT !.ambiguous = TRUE]

failed_post_commit(e) == [e EXCEPT !.failed_post_commit = TRUE]

\* ------------------------------------------------- injected storage errors

\* What can happen to a request: it is served ("ok"), or an error is injected; an
\* ambiguous error leaves the write applied or not.
WriteFates == IF faults < MaxFaults
              THEN {"ok", "amb_applied", "amb_lost", "transient", "hard", "expiry"}
              ELSE {"ok"}

ReadFates == IF faults < MaxFaults THEN {"ok", "transient", "hard", "expiry"} ELSE {"ok"}

Applied(f) == f \in {"ok", "amb_applied"}

\* error_class_from_response: the class the attempt sees; "-" is success.
error_class_from_response(f, natural) ==
  CASE f = "ok" -> natural
    [] f \in {"amb_applied", "amb_lost"} -> "FAIL_AMBIGUOUS"
    [] f = "transient" -> "FAIL_TRANSIENT"
    [] f = "hard" -> "FAIL_HARD"
    [] OTHER -> "FAIL_EXPIRY"

Count(f) == IF f = "ok" THEN faults ELSE faults + 1

\* ------------------------------------------------ staged-mutation queue

\* staged_mutation: doc_ (the transaction_get_result handed back to the body: cas,
\* content, links), the staged content_ and the type_.
Mutation(d, type, content, doc) == [id |-> d, type |-> type, content |-> content, doc |-> doc]

Indexes(q, d, type) == {i \in 1..Len(q) : q[i].id = d /\ q[i].type = type}

find_replace(q, d) == Indexes(q, d, "REPLACE")

find_insert(q, d) == Indexes(q, d, "INSERT")

find_remove(q, d) == Indexes(q, d, "REMOVE")

\* attempt_context_impl::check_for_own_write: a staged replace, else a staged insert.
check_for_own_write(q, d) ==
  IF find_replace(q, d) # {} THEN find_replace(q, d) ELSE find_insert(q, d)

\* staged_mutation_queue::add: append, or take the place of the entry of the same document.
add(q, m) ==
  IF \E i \in 1..Len(q) : q[i].id = m.id
  THEN [i \in 1..Len(q) |-> IF q[i].id = m.id THEN m ELSE q[i]]
  ELSE Append(q, m)

Ids(q, type) ==
  LET sel == SelectSeq(q, LAMBDA m : m.type = type)
  IN [i \in 1..Len(sel) |-> sel[i].id]

\* staged_mutation_queue::extract_to: the three id arrays written with the status
\* into the entry, whose start timestamp is ts.
extract_to(q, status, ts) ==
  [status |-> status, ts |-> ts, ins |-> Ids(q, "INSERT"), rep |-> Ids(q, "REPLACE"),
   rem |-> Ids(q, "REMOVE")]

\* ------------------------------------------------------- initial state

\* The operation an attempt is in: its arguments, the document it works on (res: the
\* one the body passed, or the one fetched on the way), whether the attempt that
\* staged res was COMMITTED when res was fetched (committed), the pacer rounds used
\* (delay), the queue position of commit and rollback (idx) and who called it (the
\* body, or run after the body returned).
Op(op, d, content, cas, caller) ==
  [op |-> op, doc |-> d, content |-> content, cas |-> cas, res |-> NoResult,
   committed |-> FALSE, delay |-> 0, idx |-> 0, caller |-> caller]

NoOp == Op("-", "-", 0, 0, "-")

\* Ghost record of an attempt: calls the body made (ops), commit() and rollback()
\* calls that returned normally, whether run called commit, the first call the body
\* made after a commit that returned and how it ended (after_commit), whether the
\* ATR-COMMIT write was applied, whether an unstage write failed, whether a get
\* returned the pre-transaction body of a document whose attempt was COMMITTED
\* (stale), whether the body called get, replace, remove or insert on the finished
\* attempt (late), and for every document the body a plain read returned when the attempt
\* first staged it (pre, -1 if never) and the content it staged last (last, -1 if
\* never, 0 for a remove).
NoHist ==
  [calls |-> MaxOps, window |-> 0, ops |-> 0, commit_ok |-> FALSE, rollback_ok |-> FALSE, run_commit |-> FALSE,
   after_commit |-> [call |-> "-", kind |-> "-", err |-> NoErr],
   body_returned |-> FALSE, atr_committed |-> FALSE, unstage_failed |-> FALSE,
   stale |-> FALSE, late |-> FALSE, pre |-> [d \in Docs |-> -1], last |-> [d \in Docs |-> -1]]

Running == [kind |-> "running", err |-> NoErr]

Returned == [kind |-> "returned", err |-> NoErr]

Threw(e) == [kind |-> "threw", err |-> e]

\* atr_ids::vbucket_for_key and atr_ids::atr_id_for_vbucket: the ATR of a document
\* key, as the number of its vbucket; 0 stands for an atr_id_ without a value.
vbucket_for_key(d) == IF d = "a" THEN 1 ELSE 2

atr_id_for_vbucket(v) == v

\* An attempt just constructed, of class attempt_context_impl ("impl") or of class
\* attempt_context ("sync"): atr_id_ has no value, no ATR-PENDING entry is written
\* (entries: the documents that hold one), no document is staged. selected_by and
\* pending_by are the mutations that assigned atr_id_ and that issued an ATR-PENDING
\* write, first the first mutation that went through the selection (ghost).
NoAsync ==
  [class |-> "-", atr_id |-> 0, state |-> "NOT_STARTED", entries |-> {},
   op |-> [m \in Mutations |-> [pc |-> "idle", doc |-> "-", kind |-> "-"]],
   staged |-> {}, unannounced |-> {}, selected_by |-> {}, pending_by |-> {},
   first |-> "-", faults |-> 0]

\* The buckets, and the collections (scope.collection) of each, documents live in.
Buckets == {"b1", "b2"}

Collections == {"_default._default", "s.c"}

\* couchbase::document_id: bucket, collection_spec_from_id and key.
DocumentIds == [bkt : Buckets, coll : Collections, key : Docs]

NoDocumentId == [bkt |-> "-", coll |-> "-", key |-> "-"]

\* The txn.atr.id, txn.atr.bkt and txn.atr.coll xattrs of a document.
NoPointer == [id |-> 0, bkt |-> "-", coll |-> "-"]

\* An attempt just constructed: atr_id_ has no value and no document carries staged
\* xattrs; n counts the mutations made.
NoStaging ==
  [atr_id |-> NoDocumentId, xattrs |-> [id \in DocumentIds |-> NoPointer], n |-> 0]

\* The threads that push to and pop from the cleanup queue.
Workers == {"w1", "w2"}

\* The entries that are constructed and pushed, named in the order of their
\* construction.
EntryNames == <<"e1", "e2", "e3">>

Entries == {EntryNames[i] : i \in 1..Len(EntryNames)}

\* An atr_cleanup_queue just constructed: queue_ is empty, mutex_ is free, the
\* steady clock reads 0 and no entry has been constructed (made). Of each thread:
\* where it is in push or pop (pc), the entry it pushes (arg), the check_time it
\* passed, the entry whose readiness its pop tested (checked, ghost) and the copy
\* it took of the top. log lists the entries pushed and returned, in this order
\* (ghost).
NoQueue ==
  [queue_ |-> {}, mutex_ |-> "-", now |-> 0,
   min_start_time_ |-> [e \in Entries |-> 0],
   made |-> [e \in Entries |-> "no"],
   pc |-> [w \in Workers |-> "idle"], arg |-> [w \in Workers |-> "-"],
   check_time |-> [w \in Workers |-> FALSE],
   checked |-> [w \in Workers |-> "-"], top |-> [w \in Workers |-> "-"],
   log |-> <<>>]

\* The cleanup runs that work on the same entry.
Runs == {"r1", "r2"}

\* The body a document has before the attempt, the content the attempt stages and
\* the bodies another writer stores.
BodyBefore == 1

StagedContent == 2

OtherBodies == {3, 4}

\* The value_crc32c of a body, a checksum: different bodies may have the same one.
crc32(body) == body % 3

\* A cleanup run that has not started: where it is (pc), the documents it still
\* has to handle with what to do to each (work), the document as do_per_doc fetched
\* it, the number of writes it made (ghost) and the step that stopped it (ghost).
NoRun == [pc |-> "idle", work |-> <<>>, fetched |-> "-", wrote |-> 0, stopped |-> "-"]

\* Nothing is set up: no entry in the ATR and no documents. entry is the ATR entry
\* of the attempt with fc_ok telling whether its forward_compat passes the check of
\* CLEANUP_ENTRY; docs are the documents, crc of each the txn.op.crc32 xattr (-1:
\* none); unstaged counts the writes of cleanup runs to each document and later
\* tells whether another party wrote to it after the first of them (ghost).
NoSweep ==
  [set |-> FALSE, entry |-> NoEntry, fc_ok |-> TRUE,
   docs |-> [d \in Docs |-> Doc("none", 0, 0, NoLink)],
   crc |-> [d \in Docs |-> -1],
   run |-> [r \in Runs |-> NoRun],
   unstaged |-> [d \in Docs |-> 0], later |-> [d \in Docs |-> FALSE],
   others |-> 0, faults |-> 0]

\* No call of retry_op_exponential_backoff is in progress. always and fails describe
\* op: it raises retry_operation at every invocation, or at its first fails ones.
NoRetry ==
  [pc |-> "idle", max_retries |-> 0, always |-> FALSE, fails |-> 0, retries |-> 0, calls |-> 0]

\* A pool just constructed: no instance yet. all and free are the instances the
\* pool has created and those of them not checked out; of each thread, whether it
\* is blocked in get, the instances it holds (ghost), and what its last get or
\* try_get returned (0: nothing yet, or no value); by is the thread that released
\* an instance last (ghost).
NoPool ==
  [max_size |-> PoolSize, all |-> {}, free |-> {}, created |-> 0,
   pc |-> [th \in Threads |-> "run"], holds |-> [th \in Threads |-> {}],
   last |-> [th \in Threads |-> 0], by |-> [i \in 1..(PoolSize + 1) |-> "-"]]

\* No transaction has been run yet. Document "a" exists, document "b" does not.
\* Each body is a lambda that calls at most n operations; the transaction that is
\* not the first is run at time w at the latest.
Constructed(n, w) ==
  /\ store = [d \in Docs |-> IF d = "a" THEN Doc("live", 1, 1, NoLink) ELSE Doc("none", 0, 0, NoLink)]
  /\ atr = [t \in Txns |-> NoEntry]
  /\ hadEntry = [t \in Txns |-> FALSE]
  /\ clock = 0
  /\ attempts = [t \in Txns |-> 0]
  /\ start = [t \in Txns |-> 0]
  /\ state = [t \in Txns |-> "NOT_STARTED"]
  /\ is_done = [t \in Txns |-> FALSE]
  /\ atr_id = [t \in Txns |-> FALSE]
  /\ expiry_overtime_mode = [t \in Txns |-> FALSE]
  /\ staged_mutations = [t \in Txns |-> <<>>]
  /\ pc = [t \in Txns |-> "idle"]
  /\ cur = [t \in Txns |-> NoOp]
  /\ got = [t \in Txns |-> [d \in Docs |-> NoResult]]
  /\ outcome = [t \in Txns |-> Running]
  /\ hist = [t \in Txns |-> [NoHist EXCEPT !.calls = n, !.window = IF t = "t1" THEN 0 ELSE w]]
  /\ faults = 0
  /\ cleaner = [phase |-> "idle", txn |-> "-", entry |-> NoEntry, work |-> <<>>]
  /\ backoff = NoRetry
  /\ pool = NoPool
  /\ async = NoAsync
  /\ staging = NoStaging
  /\ cleanup_queue = NoQueue
  /\ sweep = NoSweep

Init == Constructed(MaxOps, MaxStart)

\* ------------------------------------------------------ control transfer

\* The operation in progress fails with e: the exception leaves the body and, since
\* transactions::run catches nothing, leaves run. An operation that was started on a
\* finished attempt has already failed the body; its continuation only ends.
Throw(t, e) ==
  /\ pc' = [pc EXCEPT ![t] = "done"]
  /\ cur' = [cur EXCEPT ![t] = NoOp]
  /\ outcome' = [outcome EXCEPT ![t] = IF @.kind = "running" THEN Threw(e) ELSE @]

\* An operation called by caller returns: to the body, or to run, which then
\* returns the transaction_result.
ReturnTo(t, caller) ==
  /\ pc' = [pc EXCEPT ![t] =
              IF caller = "run" \/ outcome[t].kind # "running" THEN "done" ELSE "body"]
  /\ cur' = [cur EXCEPT ![t] = NoOp]
  /\ outcome' = [outcome EXCEPT ![t] =
                   IF caller = "run" /\ @.kind = "running" THEN Returned ELSE @]

Return(t) == ReturnTo(t, cur[t].caller)

\* attempt_context_impl::check_if_done: the error it completes the operation with.
\* It does not return from its caller, so the operation goes on after the body has
\* received the error.
check_if_done == no_rollback(Err("FAIL_OTHER"))

\* The operation of a finished attempt fails with check_if_done whatever follows.
First(t, e) == IF is_done[t] THEN check_if_done ELSE e

Detach(t) ==
  outcome' = [outcome EXCEPT ![t] = IF is_done[t] /\ @.kind = "running" THEN Threw(check_if_done) ELSE @]

\* The body calls an operation: one more of the calls it may make.
BodyCalls(t) == pc[t] = "body" /\ hist[t].ops < hist[t].calls

\* The value the body writes with replace: a function of the value it read.
NextContent(content) == content + 1

\* The value the body of transaction t inserts.
InsertContent(t) == IF t = "t1" THEN 10 ELSE 20

\* ------------------------------------------------------------------ get

\* attempt_context_impl::get (error mapping of the class do_get reports).
GetError(ec) ==
  CASE ec = "FAIL_EXPIRY" -> expired(Err(ec))
    [] ec = "FAIL_DOC_NOT_FOUND" -> Err(ec)
    [] ec = "FAIL_TRANSIENT" -> retry(Err(ec))
    [] ec = "FAIL_HARD" -> no_rollback(Err(ec))
    [] OTHER -> Err("FAIL_OTHER")

\* get with no error class and no document builds its error from the empty
\* optional (*ec): the class is whatever the storage of the optional holds.
GetNotFound == {Err(ec) : ec \in ErrorClasses}

\* do_get reports neither an error class nor a document for d: get fails with
\* the error built from the empty optional, get_optional completes with an
\* empty result.
Missing(t, d, op) ==
  IF op = "get_optional"
  THEN /\ got' = [got EXCEPT ![t][d] = NoResult]
       /\ IF is_done[t] THEN Throw(t, check_if_done) ELSE ReturnTo(t, "body")
  ELSE /\ \E e \in GetNotFound : Throw(t, First(t, e))
       /\ UNCHANGED got

\* do_get reports error class ec: the switch of get and of get_optional, which
\* differ in FAIL_DOC_NOT_FOUND only.
Classified(t, d, op, ec) ==
  IF op = "get_optional" /\ ec = "FAIL_DOC_NOT_FOUND"
  THEN /\ got' = [got EXCEPT ![t][d] = NoResult]
       /\ IF is_done[t] THEN Throw(t, check_if_done) ELSE ReturnTo(t, "body")
  ELSE /\ Throw(t, First(t, GetError(ec)))
       /\ UNCHANGED got

\* do_get, the continuation of get_atr: what a get by attempt t returns for the
\* fetched document doc once the ATR of the attempt that staged it is read
\* (readable = the ATR lookup succeeded). NoResult hides the document.
do_get_atr(t, doc, readable) ==
  LET o == doc.link.txn
      staged == Result(doc.cas, doc.link.stgd, doc.link, doc.deleted)
      body == IF doc.content = 0 THEN NoResult ELSE doc
  IN IF ~readable THEN body
     ELSE IF HasEntry(o)
     THEN IF o = t THEN staged
          ELSE IF atr[o].status = "COMMITTED"
               THEN IF is_document_being_removed(doc.link) THEN NoResult ELSE staged
               ELSE body
     ELSE body

\* get and get_optional up to the lookup: check_if_done, do_get's expiry check
\* and own writes.
Get(t, d, op) ==
  /\ UNCHANGED utilities
  /\ BodyCalls(t)
  /\ hist' = [hist EXCEPT ![t].ops = @ + 1, ![t].late = @ \/ is_done[t]]
  /\ LET q == staged_mutations[t]
         own == check_for_own_write(q, d)
     IN IF has_expired_client_side(t)
        THEN /\ expiry_overtime_mode' = [expiry_overtime_mode EXCEPT ![t] = TRUE]
             /\ Classified(t, d, op, "FAIL_EXPIRY")
        ELSE IF own # {}
        THEN /\ \E i \in own :
                  got' = [got EXCEPT ![t][d] =
                            Result(q[i].doc.cas, q[i].content, q[i].doc.link, q[i].doc.deleted)]
             /\ IF is_done[t] THEN Throw(t, check_if_done) ELSE UNCHANGED <<pc, cur, outcome>>
             /\ UNCHANGED expiry_overtime_mode
        ELSE IF find_remove(q, d) # {}
        THEN /\ Missing(t, d, op)
             /\ UNCHANGED expiry_overtime_mode
        ELSE /\ pc' = [pc EXCEPT ![t] = "get_doc"]
             /\ cur' = [cur EXCEPT ![t] = Op(op, d, 0, 0, "body")]
             /\ Detach(t)
             /\ UNCHANGED <<got, expiry_overtime_mode>>
  /\ UNCHANGED <<store, atr, hadEntry, clock, attempts, start, state, is_done, atr_id,
                 staged_mutations, faults, cleaner>>

BeginGet(t, d) == Get(t, d, "get")

BeginGetOptional(t, d) == Get(t, d, "get_optional")

\* get_doc and its continuation in do_get: the lookup of the document with its xattrs.
GetDoc(t) ==
  /\ UNCHANGED utilities
  /\ pc[t] = "get_doc"
  /\ \E f \in ReadFates :
       LET d == cur[t].doc
           ec == error_class_from_response(
                   f, IF store[d].st = "none" THEN "FAIL_DOC_NOT_FOUND" ELSE "-")
           doc == FetchedDoc(d)
       IN /\ faults' = Count(f)
          /\ IF ec # "-"
             THEN Classified(t, d, cur[t].op, ec)
             ELSE IF is_document_in_transaction(doc.link)
             THEN /\ pc' = [pc EXCEPT ![t] = "get_atr"]
                  /\ cur' = [cur EXCEPT ![t].res = doc,
                                        ![t].committed = (atr[doc.link.txn].status = "COMMITTED")]
                  /\ UNCHANGED <<got, outcome>>
             ELSE IF doc.deleted
             THEN Missing(t, d, cur[t].op)
             ELSE /\ got' = [got EXCEPT ![t][d] = doc]
                  /\ Return(t)
  /\ UNCHANGED <<store, atr, hadEntry, clock, attempts, start, state, is_done, atr_id,
                 expiry_overtime_mode, staged_mutations, hist, cleaner>>

\* A get of a document whose staging attempt was COMMITTED when the document was
\* fetched returned something else than the staged, post-commit value.
StaleRead(t, res) ==
  LET doc == cur[t].res
  IN /\ cur[t].committed
     /\ doc.link.txn # t
     /\ IF is_document_being_removed(doc.link) THEN res.found
        ELSE ~res.found \/ res.content # doc.link.stgd

\* active_transaction_record::get_atr in do_get and what get returns after it.
GetAtr(t) ==
  /\ UNCHANGED utilities
  /\ pc[t] = "get_atr"
  /\ \E f \in ReadFates :
       LET d == cur[t].doc
           res == do_get_atr(t, cur[t].res, f = "ok")
       IN /\ faults' = Count(f)
          /\ hist' = [hist EXCEPT ![t].stale = @ \/ StaleRead(t, res)]
          /\ IF res.found
             THEN got' = [got EXCEPT ![t][d] = res] /\ Return(t)
             ELSE Missing(t, d, cur[t].op)
  /\ UNCHANGED <<store, atr, hadEntry, clock, attempts, start, state, is_done, atr_id,
                 expiry_overtime_mode, staged_mutations, cleaner>>

\* ------------------------------------------- blocking transactions, ATR

\* check_and_handle_blocking_transactions without its look at the staged write.
is_blocked_NoCheck(t, doc) == FALSE

\* check_and_handle_blocking_transactions: the document carries the staged write of
\* another transaction, whose ATR entry has to be consulted.
is_blocked(t, doc) == has_staged_write(doc.link) /\ doc.link.txn # t

\* check_atr_entry_for_blocking_document that takes every entry for one that can be
\* ignored.
still_blocking_Ignored(o) == FALSE

\* check_atr_entry_for_blocking_document, the decision on the ATR that was read:
\* TRUE when the entry of the staging attempt o still blocks the write.
still_blocking(o) ==
  /\ HasEntry(o)
  /\ ~has_expired(atr[o], FALSE)
  /\ atr[o].status \notin {"COMPLETED", "ROLLED_BACK"}

\* select_atr_if_needed_unlocked: the first mutation selects the ATR (atr_id_) and
\* resets the state; the ATR-PENDING write follows. Later mutations move on.
select_atr_if_needed(t) ==
  /\ atr_id' = [atr_id EXCEPT ![t] = TRUE]
  /\ state' = [state EXCEPT ![t] = IF atr_id[t] THEN @ ELSE "NOT_STARTED"]

\* select_atr_if_needed_unlocked without its call of set_atr_pending_locked.
AfterSelect_NoPending(t) == "stage"

\* Where the mutation goes on after select_atr_if_needed_unlocked.
AfterSelect(t) == IF atr_id[t] THEN "stage" ELSE "atr_pending"

\* check_atr_entry_for_blocking_document: one round of the pacer and one ATR read.
Block(t) ==
  /\ UNCHANGED utilities
  /\ pc[t] = "block"
  /\ IF cur[t].delay >= MaxDelay
     THEN /\ Throw(t, retry(Err("FAIL_WRITE_WRITE_CONFLICT")))
          /\ UNCHANGED <<faults, atr_id, state>>
     ELSE \E f \in ReadFates :
            /\ faults' = Count(f)
            /\ IF f # "ok"
               THEN /\ Throw(t, retry(Err("FAIL_WRITE_WRITE_CONFLICT")))
                    /\ UNCHANGED <<atr_id, state>>
               ELSE IF still_blocking(cur[t].res.link.txn)
               THEN /\ cur' = [cur EXCEPT ![t].delay = @ + 1]
                    /\ UNCHANGED <<pc, outcome, atr_id, state>>
               ELSE IF cur[t].op = "insert"
               THEN /\ pc' = [pc EXCEPT ![t] = "stage"]
                    /\ cur' = [cur EXCEPT ![t].cas = cur[t].res.cas]
                    /\ UNCHANGED <<outcome, atr_id, state>>
               ELSE /\ pc' = [pc EXCEPT ![t] = AfterSelect(t)]
                    /\ select_atr_if_needed(t)
                    /\ UNCHANGED <<cur, outcome>>
  /\ UNCHANGED <<store, atr, hadEntry, clock, attempts, start, is_done, expiry_overtime_mode,
                 staged_mutations, got, hist, cleaner>>

\* set_atr_pending_locked, its error_handler: the error the mutation fails with.
AtrPendingError(ec, overtime) ==
  IF overtime THEN expired(no_rollback(Err(ec)))
  ELSE CASE ec = "FAIL_EXPIRY" -> expired(Err(ec))
         [] ec = "FAIL_TRANSIENT" -> retry(Err(ec))
         [] ec = "FAIL_HARD" -> no_rollback(Err(ec))
         [] OTHER -> Err(ec)

\* set_atr_pending_locked: the ATR-PENDING write (dict_add of attempts.<id>) and
\* its response.
AtrPending(t) ==
  /\ UNCHANGED utilities
  /\ pc[t] = "atr_pending"
  /\ IF ~expiry_overtime_mode[t] /\ has_expired_client_side(t)
     THEN /\ Throw(t, expired(Err("FAIL_EXPIRY")))
          /\ UNCHANGED <<atr, hadEntry, state, expiry_overtime_mode, faults>>
     ELSE \E f \in WriteFates :
            LET natural == IF HasEntry(t) THEN "FAIL_PATH_ALREADY_EXISTS" ELSE "-"
                ec == error_class_from_response(f, natural)
                written == Applied(f) /\ natural = "-"
                overtime == expiry_overtime_mode[t]
            IN /\ faults' = Count(f)
               /\ atr' = IF written THEN [atr EXCEPT ![t] = extract_to(<<>>, "PENDING", clock)] ELSE atr
               /\ hadEntry' = IF written THEN [hadEntry EXCEPT ![t] = TRUE] ELSE hadEntry
               /\ IF ec = "-"
                  THEN /\ state' = [state EXCEPT ![t] = "PENDING"]
                       /\ pc' = [pc EXCEPT ![t] = "stage"]
                       /\ UNCHANGED <<cur, outcome, expiry_overtime_mode>>
                  ELSE IF ec = "FAIL_PATH_ALREADY_EXISTS" /\ ~overtime
                  THEN /\ pc' = [pc EXCEPT ![t] = "stage"]
                       /\ UNCHANGED <<cur, outcome, state, expiry_overtime_mode>>
                  ELSE IF ec = "FAIL_AMBIGUOUS" /\ ~overtime
                  THEN UNCHANGED <<pc, cur, outcome, state, expiry_overtime_mode>>
                  ELSE /\ Throw(t, AtrPendingError(ec, overtime))
                       /\ expiry_overtime_mode' =
                            [expiry_overtime_mode EXCEPT ![t] = @ \/ ec = "FAIL_EXPIRY"]
                       /\ UNCHANGED state
  /\ UNCHANGED <<store, clock, attempts, start, is_done, atr_id, staged_mutations, got, hist, cleaner>>

\* ------------------------------------------------------ replace, remove

\* replace_raw up to its first storage request: expiry, blocking transaction, ATR.
BeginReplace(t, d) ==
  /\ UNCHANGED utilities
  /\ BodyCalls(t)
  /\ got[t][d].found
  /\ hist' = [hist EXCEPT ![t].ops = @ + 1, ![t].late = @ \/ is_done[t]]
  /\ LET doc == got[t][d]
     IN IF has_expired_client_side(t)
        THEN /\ expiry_overtime_mode' = [expiry_overtime_mode EXCEPT ![t] = TRUE]
             /\ Throw(t, First(t, expired(Err("FAIL_EXPIRY"))))
             /\ UNCHANGED <<atr_id, state>>
        ELSE /\ cur' = [cur EXCEPT ![t] =
                          [Op("replace", d, NextContent(doc.content), doc.cas, "body")
                             EXCEPT !.res = doc]]
             /\ Detach(t)
             /\ IF is_blocked(t, doc)
                THEN pc' = [pc EXCEPT ![t] = "block"] /\ UNCHANGED <<atr_id, state>>
                ELSE pc' = [pc EXCEPT ![t] = AfterSelect(t)] /\ select_atr_if_needed(t)
             /\ UNCHANGED expiry_overtime_mode
  /\ UNCHANGED <<store, atr, hadEntry, clock, attempts, start, is_done, staged_mutations, got,
                 faults, cleaner>>

\* replace_raw and remove, their error_handler; only remove's knows FAIL_EXPIRY.
StageError(op, ec) ==
  CASE ec = "FAIL_EXPIRY" /\ op = "remove" -> expired(Err(ec))
    [] ec \in {"FAIL_DOC_NOT_FOUND", "FAIL_DOC_ALREADY_EXISTS", "FAIL_CAS_MISMATCH",
               "FAIL_TRANSIENT", "FAIL_AMBIGUOUS"} -> retry(Err(ec))
    [] ec = "FAIL_HARD" -> no_rollback(Err(ec))
    [] OTHER -> Err(ec)

\* The queue after a staged replace of d (replace_raw, the response callback).
after_replace(q, d, content, out) ==
  IF find_replace(q, d) # {}
  THEN [i \in 1..Len(q) |->
          IF i \in find_replace(q, d)
          THEN [q[i] EXCEPT !.content = content, !.doc.cas = out.cas] ELSE q[i]]
  ELSE IF find_insert(q, d) # {}
  THEN [i \in 1..Len(q) |->
          IF i \in find_insert(q, d)
          THEN [q[i] EXCEPT !.doc.content = content, !.doc.cas = out.cas] ELSE q[i]]
  ELSE add(q, Mutation(d, "REPLACE", content, out))

\* Ghost: attempt t staged content on d (0 for a remove).
Staged(t, d, content) ==
  [hist EXCEPT ![t].pre[d] = IF @ = -1 THEN PlainGet(d) ELSE @, ![t].last[d] = content]

\* replace_raw: the staging mutate_in (cas of the document, access_deleted) and its
\* response.
StageReplace(t) ==
  /\ UNCHANGED utilities
  /\ pc[t] = "stage"
  /\ cur[t].op = "replace"
  /\ \E f \in WriteFates :
       LET d == cur[t].doc
           natural == IF store[d].st = "none" THEN "FAIL_DOC_NOT_FOUND"
                      ELSE IF store[d].cas # cur[t].cas THEN "FAIL_CAS_MISMATCH" ELSE "-"
           ec == error_class_from_response(f, natural)
           written == Applied(f) /\ natural = "-"
           out == [cur[t].res EXCEPT !.cas = store[d].cas + 1]
       IN /\ faults' = Count(f)
          /\ store' = IF written
                      THEN [store EXCEPT ![d].link = Link(t, "replace", cur[t].content),
                                         ![d].cas = @ + 1]
                      ELSE store
          /\ hist' = IF written THEN Staged(t, d, cur[t].content) ELSE hist
          /\ IF ec = "-"
             THEN /\ staged_mutations' =
                       [staged_mutations EXCEPT ![t] = after_replace(@, d, cur[t].content, out)]
                  /\ got' = [got EXCEPT ![t][d] = out]
                  /\ Return(t)
             ELSE /\ Throw(t, StageError("replace", ec))
                  /\ UNCHANGED <<staged_mutations, got>>
  /\ UNCHANGED <<atr, hadEntry, clock, attempts, start, state, is_done, atr_id,
                 expiry_overtime_mode, cleaner>>

\* remove up to its first storage request.
BeginRemove(t, d) ==
  /\ UNCHANGED utilities
  /\ BodyCalls(t)
  /\ got[t][d].found
  /\ hist' = [hist EXCEPT ![t].ops = @ + 1, ![t].late = @ \/ is_done[t]]
  /\ LET doc == got[t][d]
     IN IF has_expired_client_side(t)
        THEN /\ expiry_overtime_mode' = [expiry_overtime_mode EXCEPT ![t] = TRUE]
             /\ Throw(t, First(t, StageError("remove", "FAIL_EXPIRY")))
             /\ UNCHANGED <<atr_id, state>>
        ELSE IF find_insert(staged_mutations[t], d) # {}
        THEN /\ Throw(t, First(t, Err("FAIL_OTHER")))
             /\ UNCHANGED <<atr_id, state, expiry_overtime_mode>>
        ELSE /\ cur' = [cur EXCEPT ![t] = [Op("remove", d, 0, doc.cas, "body") EXCEPT !.res = doc]]
             /\ Detach(t)
             /\ IF is_blocked(t, doc)
                THEN pc' = [pc EXCEPT ![t] = "block"] /\ UNCHANGED <<atr_id, state>>
                ELSE pc' = [pc EXCEPT ![t] = AfterSelect(t)] /\ select_atr_if_needed(t)
             /\ UNCHANGED expiry_overtime_mode
  /\ UNCHANGED <<store, atr, hadEntry, clock, attempts, start, is_done, staged_mutations, got,
                 faults, cleaner>>

\* remove: the staging mutate_in (cas of the document, access_deleted only when the
\* document was fetched as a tombstone) and its response.
StageRemove(t) ==
  /\ UNCHANGED utilities
  /\ pc[t] = "stage"
  /\ cur[t].op = "remove"
  /\ \E f \in WriteFates :
       LET d == cur[t].doc
           natural == IF store[d].st = "none" \/ (store[d].st = "tomb" /\ ~cur[t].res.deleted)
                      THEN "FAIL_DOC_NOT_FOUND"
                      ELSE IF store[d].cas # cur[t].cas THEN "FAIL_CAS_MISMATCH" ELSE "-"
           ec == error_class_from_response(f, natural)
           written == Applied(f) /\ natural = "-"
           new_res == [cur[t].res EXCEPT !.cas = store[d].cas + 1]
       IN /\ faults' = Count(f)
          /\ store' = IF written
                      THEN [store EXCEPT ![d].link = Link(t, "remove", 0), ![d].cas = @ + 1]
                      ELSE store
          /\ hist' = IF written THEN Staged(t, d, 0) ELSE hist
          /\ IF ec = "-"
             THEN /\ staged_mutations' =
                       [staged_mutations EXCEPT ![t] = add(@, Mutation(d, "REMOVE", 0, new_res))]
                  /\ Return(t)
             ELSE /\ Throw(t, StageError("remove", ec))
                  /\ UNCHANGED staged_mutations
          /\ expiry_overtime_mode' =
               [expiry_overtime_mode EXCEPT ![t] = @ \/ ec = "FAIL_EXPIRY"]
  /\ UNCHANGED <<atr, hadEntry, clock, attempts, start, state, is_done, atr_id, got, cleaner>>

\* --------------------------------------------------------------- insert

\* insert_raw up to its first storage request: own writes, expiry, ATR.
BeginInsert(t, d) ==
  /\ UNCHANGED utilities
  /\ BodyCalls(t)
  /\ hist' = [hist EXCEPT ![t].ops = @ + 1, ![t].late = @ \/ is_done[t]]
  /\ IF check_for_own_write(staged_mutations[t], d) # {}
     THEN /\ Throw(t, First(t, Err("FAIL_OTHER")))
          /\ UNCHANGED <<atr_id, state, expiry_overtime_mode>>
     ELSE IF has_expired_client_side(t)
     THEN /\ expiry_overtime_mode' = [expiry_overtime_mode EXCEPT ![t] = TRUE]
          /\ Throw(t, First(t, expired(Err("FAIL_EXPIRY"))))
          /\ UNCHANGED <<atr_id, state>>
     ELSE /\ cur' = [cur EXCEPT ![t] = Op("insert", d, InsertContent(t), 0, "body")]
          /\ Detach(t)
          /\ pc' = [pc EXCEPT ![t] = AfterSelect(t)]
          /\ select_atr_if_needed(t)
          /\ UNCHANGED expiry_overtime_mode
  /\ UNCHANGED <<store, atr, hadEntry, clock, attempts, start, is_done, staged_mutations, got,
                 faults, cleaner>>

\* create_staged_insert_error_handler: the error the insert fails with, for the
\* classes that end it.
InsertError(ec, overtime) ==
  IF overtime THEN expired(Err("FAIL_EXPIRY"))
  ELSE CASE ec = "FAIL_EXPIRY" -> expired(Err(ec))
         [] ec = "FAIL_TRANSIENT" -> retry(Err(ec))
         [] ec = "FAIL_OTHER" -> Err(ec)
         [] ec = "FAIL_HARD" -> no_rollback(Err(ec))
         [] OTHER -> retry(Err(ec))

\* create_staged_insert: the staging mutate_in (create_as_deleted; insert semantics
\* with cas 0, replace semantics with the cas of the document found) and its response.
StageInsert(t) ==
  /\ UNCHANGED utilities
  /\ pc[t] = "stage"
  /\ cur[t].op = "insert"
  /\ LET d == cur[t].doc
         overtime == expiry_overtime_mode[t]
         link == Link(t, "insert", cur[t].content)
     IN IF ~overtime /\ has_expired_client_side(t)
        THEN /\ expiry_overtime_mode' = [expiry_overtime_mode EXCEPT ![t] = TRUE]
             /\ Throw(t, InsertError("FAIL_EXPIRY", overtime))
             /\ UNCHANGED <<store, staged_mutations, got, hist, faults>>
        ELSE \E f \in WriteFates :
               LET natural ==
                     IF cur[t].cas = 0
                     THEN IF store[d].st # "none" THEN "FAIL_DOC_ALREADY_EXISTS" ELSE "-"
                     ELSE IF store[d].st = "none" THEN "FAIL_DOC_NOT_FOUND"
                     ELSE IF store[d].cas # cur[t].cas THEN "FAIL_CAS_MISMATCH" ELSE "-"
                   ec == error_class_from_response(f, natural)
                   written == Applied(f) /\ natural = "-"
                   out == Result(store[d].cas + 1, cur[t].content, link, TRUE)
               IN /\ faults' = Count(f)
                  /\ store' = IF written
                              THEN [store EXCEPT ![d] =
                                      IF cur[t].cas = 0 THEN Doc("tomb", 0, @.cas + 1, link)
                                      ELSE [@ EXCEPT !.link = link, !.cas = @ + 1]]
                              ELSE store
                  /\ hist' = IF written THEN Staged(t, d, cur[t].content) ELSE hist
                  /\ IF ec = "-"
                     THEN /\ staged_mutations' =
                               [staged_mutations EXCEPT ![t] =
                                  add(@, Mutation(d, "INSERT", cur[t].content, out))]
                          /\ got' = [got EXCEPT ![t][d] = out]
                          /\ Return(t)
                          /\ UNCHANGED expiry_overtime_mode
                     ELSE IF overtime
                     THEN /\ Throw(t, InsertError(ec, overtime))
                          /\ UNCHANGED <<staged_mutations, got, expiry_overtime_mode>>
                     ELSE IF ec = "FAIL_AMBIGUOUS"
                     THEN UNCHANGED <<pc, cur, outcome, staged_mutations, got,
                                      expiry_overtime_mode>>
                     ELSE IF ec \in {"FAIL_DOC_ALREADY_EXISTS", "FAIL_CAS_MISMATCH"}
                     THEN /\ pc' = [pc EXCEPT ![t] = "ins_get"]
                          /\ UNCHANGED <<cur, outcome, staged_mutations, got,
                                         expiry_overtime_mode>>
                     ELSE /\ Throw(t, InsertError(ec, overtime))
                          /\ expiry_overtime_mode' =
                               [expiry_overtime_mode EXCEPT ![t] = @ \/ ec = "FAIL_EXPIRY"]
                          /\ UNCHANGED <<staged_mutations, got>>
  /\ UNCHANGED <<atr, hadEntry, clock, attempts, start, state, is_done, atr_id, cleaner>>

\* create_staged_insert_error_handler, the error_handler of its get_doc.
InsertGetError(ec, overtime) ==
  IF overtime THEN expired(Err("FAIL_EXPIRY"))
  ELSE CASE ec = "FAIL_EXPIRY" -> expired(Err(ec))
         [] ec = "FAIL_OTHER" -> Err(ec)
         [] ec = "FAIL_HARD" -> no_rollback(Err(ec))
         [] OTHER -> retry(Err(ec))

\* create_staged_insert_error_handler after FAIL_DOC_ALREADY_EXISTS or
\* FAIL_CAS_MISMATCH: the document is fetched and the insert is staged again with
\* its cas, or fails.
InsertGet(t) ==
  /\ UNCHANGED utilities
  /\ pc[t] = "ins_get"
  /\ \E f \in ReadFates :
       LET d == cur[t].doc
           ec == error_class_from_response(
                   f, IF store[d].st = "none" THEN "FAIL_DOC_NOT_FOUND" ELSE "-")
           doc == FetchedDoc(d)
           overtime == expiry_overtime_mode[t]
       IN /\ faults' = Count(f)
          /\ IF ec # "-"
             THEN /\ Throw(t, InsertGetError(ec, overtime))
                  /\ expiry_overtime_mode' =
                       [expiry_overtime_mode EXCEPT ![t] = @ \/ ec = "FAIL_EXPIRY"]
             ELSE /\ UNCHANGED expiry_overtime_mode
                  /\ IF ~is_document_in_transaction(doc.link) /\ doc.deleted
                     THEN /\ pc' = [pc EXCEPT ![t] = "stage"]
                          /\ cur' = [cur EXCEPT ![t].cas = doc.cas]
                          /\ UNCHANGED outcome
                     ELSE IF ~is_document_in_transaction(doc.link) \/ doc.link.op # "insert"
                     THEN Throw(t, Err("FAIL_DOC_ALREADY_EXISTS"))
                     ELSE IF is_blocked(t, doc)
                     THEN /\ pc' = [pc EXCEPT ![t] = "block"]
                          /\ cur' = [cur EXCEPT ![t].res = doc]
                          /\ UNCHANGED outcome
                     ELSE /\ pc' = [pc EXCEPT ![t] = "stage"]
                          /\ cur' = [cur EXCEPT ![t].cas = doc.cas]
                          /\ UNCHANGED outcome
  /\ UNCHANGED <<store, atr, hadEntry, clock, attempts, start, state, is_done, atr_id,
                 staged_mutations, got, hist, cleaner>>

\* --------------------------------------------------------------- commit

\* Ghost: a call made by the body after a commit() that returned ended as kind.
AfterCommit(h, call, kind, e) ==
  IF h.commit_ok /\ h.after_commit.call = "-"
  THEN [h EXCEPT !.after_commit = [call |-> call, kind |-> kind, err |-> e]]
  ELSE h

\* commit that goes to the ATR-COMMIT write whether or not an ATR was selected.
commit_AlwaysWrites(t, caller, h) ==
  /\ pc' = [pc EXCEPT ![t] = "atr_commit"]
  /\ cur' = [cur EXCEPT ![t] = Op("commit", "-", 0, 0, caller)]
  /\ hist' = [hist EXCEPT ![t] = h]
  /\ UNCHANGED <<outcome, is_done, expiry_overtime_mode>>

\* attempt_context_impl::commit up to atr_commit, called by the body or by run.
\* h is the ghost record with the call counted.
commit(t, caller, h) ==
  IF has_expired_client_side(t)
  THEN /\ expiry_overtime_mode' = [expiry_overtime_mode EXCEPT ![t] = TRUE]
       /\ Throw(t, expired(Err("FAIL_EXPIRY")))
       /\ hist' = [hist EXCEPT ![t] = AfterCommit(h, "commit", "threw", expired(Err("FAIL_EXPIRY")))]
       /\ UNCHANGED is_done
  ELSE IF atr_id[t] /\ ~is_done[t]
  THEN /\ pc' = [pc EXCEPT ![t] = "atr_commit"]
       /\ cur' = [cur EXCEPT ![t] = Op("commit", "-", 0, 0, caller)]
       /\ hist' = [hist EXCEPT ![t] = h]
       /\ UNCHANGED <<outcome, is_done, expiry_overtime_mode>>
  ELSE IF ~is_done[t]
  THEN /\ is_done' = [is_done EXCEPT ![t] = TRUE]
       /\ ReturnTo(t, caller)
       /\ hist' = [hist EXCEPT ![t] = [h EXCEPT !.commit_ok = TRUE]]
       /\ UNCHANGED expiry_overtime_mode
  ELSE /\ Throw(t, no_rollback(Err("FAIL_OTHER")))
       /\ hist' = [hist EXCEPT ![t] = AfterCommit(h, "commit", "threw", no_rollback(Err("FAIL_OTHER")))]
       /\ UNCHANGED <<is_done, expiry_overtime_mode>>

\* The body calls commit().
BeginCommit(t) ==
  /\ UNCHANGED utilities
  /\ BodyCalls(t)
  /\ commit(t, "body", [hist[t] EXCEPT !.ops = @ + 1])
  /\ UNCHANGED <<store, atr, hadEntry, clock, attempts, start, state, atr_id, staged_mutations,
                 got, faults, cleaner>>

\* atr_commit, its catch block: the error commit fails with.
AtrCommitError(ec) ==
  CASE ec = "FAIL_EXPIRY" -> expired(Err(ec))
    [] ec = "FAIL_TRANSIENT" -> retry(Err(ec))
    [] ec = "FAIL_HARD" -> no_rollback(Err(ec))
    [] OTHER -> Err(ec)

AfterAtrCommit(t) == IF Len(staged_mutations[t]) = 0 THEN "atr_complete" ELSE "unstage"

\* atr_commit: the ATR-COMMIT write (dict_upsert of the status, no parents created,
\* with the id arrays of the queue) and its response.
AtrCommit(t) ==
  /\ UNCHANGED utilities
  /\ pc[t] = "atr_commit"
  /\ IF ~expiry_overtime_mode[t] /\ has_expired_client_side(t)
     THEN /\ expiry_overtime_mode' = [expiry_overtime_mode EXCEPT ![t] = TRUE]
          /\ Throw(t, AtrCommitError("FAIL_EXPIRY"))
          /\ UNCHANGED <<atr, state, hist, faults>>
     ELSE \E f \in WriteFates :
            LET natural == IF HasEntry(t) THEN "-" ELSE "FAIL_PATH_NOT_FOUND"
                ec == error_class_from_response(f, natural)
                written == Applied(f) /\ natural = "-"
            IN /\ faults' = Count(f)
               /\ atr' = IF written
                         THEN [atr EXCEPT ![t] = extract_to(staged_mutations[t], "COMMITTED", atr[t].ts)]
                         ELSE atr
               /\ hist' = [hist EXCEPT ![t].atr_committed = @ \/ written]
               /\ expiry_overtime_mode' =
                    [expiry_overtime_mode EXCEPT ![t] = @ \/ ec = "FAIL_EXPIRY"]
               /\ IF ec = "-"
                  THEN /\ state' = [state EXCEPT ![t] = "COMMITTED"]
                       /\ pc' = [pc EXCEPT ![t] = AfterAtrCommit(t)]
                       /\ cur' = [cur EXCEPT ![t].idx = 1]
                       /\ UNCHANGED outcome
                  ELSE IF ec = "FAIL_AMBIGUOUS"
                  THEN /\ pc' = [pc EXCEPT ![t] = "atr_commit_amb"]
                       /\ UNCHANGED <<cur, outcome, state>>
                  ELSE Throw(t, AtrCommitError(ec)) /\ UNCHANGED state
  /\ UNCHANGED <<store, hadEntry, clock, attempts, start, is_done, atr_id, staged_mutations, got,
                 cleaner>>

\* atr_commit_ambiguity_resolution, its catch block, for the classes that end commit.
AmbiguityError(ec) ==
  CASE ec = "FAIL_EXPIRY" -> ambiguous(no_rollback(Err(ec)))
    [] ec = "FAIL_HARD" -> no_rollback(Err(ec))
    [] ec = "FAIL_PATH_NOT_FOUND" -> no_rollback(Err("FAIL_OTHER"))
    [] OTHER -> no_rollback(Err(ec))

\* atr_commit_ambiguity_resolution: the status of the entry is read; COMPLETED ends
\* atr_commit, ABORTED and ROLLED_BACK fail, any other status repeats ATR-COMMIT.
AtrCommitAmbiguityResolution(t) ==
  /\ UNCHANGED utilities
  /\ pc[t] = "atr_commit_amb"
  /\ IF ~expiry_overtime_mode[t] /\ has_expired_client_side(t)
     THEN /\ expiry_overtime_mode' = [expiry_overtime_mode EXCEPT ![t] = TRUE]
          /\ Throw(t, AmbiguityError("FAIL_EXPIRY"))
          /\ UNCHANGED faults
     ELSE \E f \in ReadFates :
            LET natural == IF HasEntry(t) THEN "-" ELSE "FAIL_PATH_NOT_FOUND"
                ec == error_class_from_response(f, natural)
            IN /\ faults' = Count(f)
               /\ expiry_overtime_mode' =
                    [expiry_overtime_mode EXCEPT ![t] = @ \/ ec = "FAIL_EXPIRY"]
               /\ IF ec = "-"
                  THEN IF atr[t].status \in {"ABORTED", "ROLLED_BACK"}
                       THEN Throw(t, no_rollback(Err("FAIL_OTHER")))
                       ELSE IF atr[t].status = "COMPLETED"
                       THEN /\ pc' = [pc EXCEPT ![t] = AfterAtrCommit(t)]
                            /\ cur' = [cur EXCEPT ![t].idx = 1]
                            /\ UNCHANGED outcome
                       ELSE /\ pc' = [pc EXCEPT ![t] = "atr_commit"]
                            /\ UNCHANGED <<cur, outcome>>
                  ELSE IF ec \in {"FAIL_TRANSIENT", "FAIL_OTHER"}
                  THEN UNCHANGED <<pc, cur, outcome>>
                  ELSE Throw(t, AmbiguityError(ec))
  /\ UNCHANGED <<store, atr, hadEntry, clock, attempts, start, state, is_done, atr_id,
                 staged_mutations, got, hist, cleaner>>

\* The document a successful unstage of mutation m leaves: the staged content as the
\* body without txn.* xattrs, or a removed document.
committed_doc(m, cas) ==
  IF m.type = "REMOVE" THEN Doc("tomb", 0, cas, NoLink) ELSE Doc("live", m.content, cas, NoLink)

\* staged_mutation_queue::commit, one entry: the unstage write with the cas of the
\* entry. A failed write ends commit() with an error flagged failed_post_commit and
\* no_rollback: ATR-COMPLETE is not reached and the entry stays COMMITTED for cleanup.
Unstage(t) ==
  /\ UNCHANGED utilities
  /\ pc[t] = "unstage"
  /\ \E f \in WriteFates :
       LET q == staged_mutations[t]
           m == q[cur[t].idx]
           d == m.id
           natural == IF store[d].st = "none" THEN "FAIL_DOC_NOT_FOUND"
                      ELSE IF store[d].cas # m.doc.cas THEN "FAIL_CAS_MISMATCH" ELSE "-"
           ec == error_class_from_response(f, natural)
           written == Applied(f) /\ natural = "-"
       IN /\ faults' = Count(f)
          /\ store' = IF written
                      THEN [store EXCEPT ![d] = committed_doc(m, store[d].cas + 1)]
                      ELSE store
          /\ hist' = [hist EXCEPT ![t].unstage_failed = @ \/ ec # "-"]
          /\ IF ec # "-"
             THEN Throw(t, failed_post_commit(no_rollback(Err(ec))))
             ELSE /\ IF cur[t].idx < Len(q)
                     THEN cur' = [cur EXCEPT ![t].idx = @ + 1] /\ UNCHANGED pc
                     ELSE pc' = [pc EXCEPT ![t] = "atr_complete"] /\ UNCHANGED cur
                  /\ UNCHANGED outcome
  /\ UNCHANGED <<atr, hadEntry, clock, attempts, start, state, is_done, atr_id,
                 expiry_overtime_mode, staged_mutations, got, cleaner>>

\* atr_complete and the end of commit: the entry is removed from the ATR; only
\* FAIL_HARD is raised, any other error is ignored; then is_done_ is set.
AtrComplete(t) ==
  /\ UNCHANGED utilities
  /\ pc[t] = "atr_complete"
  /\ IF ~expiry_overtime_mode[t] /\ has_expired_client_side(t)
     THEN /\ is_done' = [is_done EXCEPT ![t] = TRUE]
          /\ hist' = [hist EXCEPT ![t].commit_ok = TRUE]
          /\ Return(t)
          /\ UNCHANGED <<atr, state, faults>>
     ELSE \E f \in WriteFates :
            LET natural == IF HasEntry(t) THEN "-" ELSE "FAIL_PATH_NOT_FOUND"
                ec == error_class_from_response(f, natural)
                written == Applied(f) /\ natural = "-"
            IN /\ faults' = Count(f)
               /\ atr' = IF written THEN [atr EXCEPT ![t] = NoEntry] ELSE atr
               /\ state' = [state EXCEPT ![t] = IF ec = "-" THEN "COMPLETED" ELSE @]
               /\ IF ec = "FAIL_HARD"
                  THEN /\ Throw(t, failed_post_commit(no_rollback(Err(ec))))
                       /\ UNCHANGED <<is_done, hist>>
                  ELSE /\ is_done' = [is_done EXCEPT ![t] = TRUE]
                       /\ hist' = [hist EXCEPT ![t].commit_ok = TRUE]
                       /\ Return(t)
  /\ UNCHANGED <<store, hadEntry, clock, attempts, start, atr_id, expiry_overtime_mode,
                 staged_mutations, got, cleaner>>

\* ------------------------------------------------------------- rollback

\* attempt_context_impl::rollback up to atr_abort, called by the body.
BeginRollback(t) ==
  /\ UNCHANGED utilities
  /\ BodyCalls(t)
  /\ expiry_overtime_mode' =
       [expiry_overtime_mode EXCEPT ![t] = @ \/ has_expired_client_side(t)]
  /\ LET h == [hist[t] EXCEPT !.ops = @ + 1]
     IN IF ~atr_id[t] \/ state[t] = "NOT_STARTED"
        THEN /\ is_done' = [is_done EXCEPT ![t] = TRUE]
             /\ ReturnTo(t, "body")
             /\ hist' = [hist EXCEPT ![t] =
                           [AfterCommit(h, "rollback", "returned", NoErr)
                              EXCEPT !.rollback_ok = TRUE]]
        ELSE IF is_done[t]
        THEN /\ Throw(t, no_rollback(Err("FAIL_OTHER")))
             /\ hist' = [hist EXCEPT ![t] =
                           AfterCommit(h, "rollback", "threw", no_rollback(Err("FAIL_OTHER")))]
             /\ UNCHANGED is_done
        ELSE /\ pc' = [pc EXCEPT ![t] = "atr_abort"]
             /\ cur' = [cur EXCEPT ![t] = Op("rollback", "-", 0, 0, "body")]
             /\ hist' = [hist EXCEPT ![t] = h]
             /\ UNCHANGED <<outcome, is_done>>
  /\ UNCHANGED <<store, atr, hadEntry, clock, attempts, start, state, atr_id, staged_mutations,
                 got, faults, cleaner>>

\* atr_abort that reports the class of the error whatever the mode.
AtrAbortError_Unflagged(ec, overtime) == no_rollback(Err(ec))

\* atr_abort, its catch block, for the classes that end rollback.
AtrAbortError(ec, overtime) ==
  IF overtime THEN expired(no_rollback(Err("FAIL_EXPIRY"))) ELSE no_rollback(Err(ec))

AfterAtrAbort(t) == IF Len(staged_mutations[t]) = 0 THEN "atr_rollback_complete" ELSE "rb_unstage"

\* atr_abort under retry_op_exp: the ATR-ABORT write (dict_upsert of the status that
\* creates missing parents, with the id arrays of the queue) and its response.
AtrAbort(t) ==
  /\ UNCHANGED utilities
  /\ pc[t] = "atr_abort"
  /\ IF ~expiry_overtime_mode[t] /\ has_expired_client_side(t)
     THEN /\ expiry_overtime_mode' = [expiry_overtime_mode EXCEPT ![t] = TRUE]
          /\ UNCHANGED <<atr, hadEntry, state, pc, cur, outcome, faults>>
     ELSE \E f \in WriteFates :
            LET ec == error_class_from_response(f, "-")
                overtime == expiry_overtime_mode[t]
            IN /\ faults' = Count(f)
               /\ atr' = IF Applied(f)
                         THEN [atr EXCEPT ![t] = extract_to(staged_mutations[t], "ABORTED", atr[t].ts)]
                         ELSE atr
               /\ hadEntry' = IF Applied(f) THEN [hadEntry EXCEPT ![t] = TRUE] ELSE hadEntry
               /\ IF ec = "-"
                  THEN /\ state' = [state EXCEPT ![t] = "ABORTED"]
                       /\ pc' = [pc EXCEPT ![t] = AfterAtrAbort(t)]
                       /\ cur' = [cur EXCEPT ![t].idx = 1]
                       /\ UNCHANGED <<outcome, expiry_overtime_mode>>
                  ELSE IF overtime \/ ec = "FAIL_HARD"
                  THEN /\ Throw(t, AtrAbortError(ec, overtime))
                       /\ UNCHANGED <<state, expiry_overtime_mode>>
                  ELSE /\ expiry_overtime_mode' =
                            [expiry_overtime_mode EXCEPT ![t] = @ \/ ec = "FAIL_EXPIRY"]
                       /\ UNCHANGED <<state, pc, cur, outcome>>
  /\ UNCHANGED <<store, clock, attempts, start, is_done, atr_id, staged_mutations, got, hist, cleaner>>

\* The document a successful rollback of mutation m leaves of document doc: the
\* tombstone of an insert is removed, any other document loses its txn.* xattrs.
rolled_back_doc(m, doc) ==
  IF m.type = "INSERT" THEN Doc("tomb", 0, doc.cas + 1, NoLink)
  ELSE [doc EXCEPT !.link = NoLink, !.cas = @ + 1]

\* staged_mutation_queue::rollback, one entry, and the catch block of rollback: a
\* failed write is a client_error, which rollback raises when FAIL_HARD and drops
\* otherwise.
RollbackUnstage(t) ==
  /\ UNCHANGED utilities
  /\ pc[t] = "rb_unstage"
  /\ \E f \in WriteFates :
       LET q == staged_mutations[t]
           m == q[cur[t].idx]
           d == m.id
           natural == IF store[d].st = "none" THEN "FAIL_DOC_NOT_FOUND"
                      ELSE IF store[d].cas # m.doc.cas THEN "FAIL_CAS_MISMATCH" ELSE "-"
           ec == error_class_from_response(f, natural)
           written == Applied(f) /\ natural = "-"
       IN /\ faults' = Count(f)
          /\ store' = IF written THEN [store EXCEPT ![d] = rolled_back_doc(m, @)] ELSE store
          /\ IF ec = "-"
             THEN /\ IF cur[t].idx < Len(q)
                     THEN cur' = [cur EXCEPT ![t].idx = @ + 1] /\ UNCHANGED pc
                     ELSE pc' = [pc EXCEPT ![t] = "atr_rollback_complete"] /\ UNCHANGED cur
                  /\ UNCHANGED <<outcome, hist>>
             ELSE IF ec = "FAIL_HARD"
             THEN Throw(t, no_rollback(Err(ec))) /\ UNCHANGED hist
             ELSE /\ Return(t)
                  /\ hist' = [hist EXCEPT ![t].rollback_ok = TRUE]
  /\ UNCHANGED <<atr, hadEntry, clock, attempts, start, state, is_done, atr_id,
                 expiry_overtime_mode, staged_mutations, got, cleaner>>

\* atr_rollback_complete, its catch block, for the classes that end rollback.
AtrRollbackCompleteError(ec, overtime) ==
  IF overtime THEN expired(no_rollback(Err("FAIL_EXPIRY")))
  ELSE IF ec = "FAIL_EXPIRY" THEN expired(no_rollback(Err(ec)))
  ELSE no_rollback(Err(ec))

\* atr_rollback_complete under retry_op_exp: the entry is removed from the ATR.
AtrRollbackComplete(t) ==
  /\ UNCHANGED utilities
  /\ pc[t] = "atr_rollback_complete"
  /\ IF ~expiry_overtime_mode[t] /\ has_expired_client_side(t)
     THEN /\ Throw(t, AtrRollbackCompleteError("FAIL_EXPIRY", FALSE))
          /\ UNCHANGED <<atr, state, is_done, hist, faults>>
     ELSE \E f \in WriteFates :
            LET natural == IF HasEntry(t) THEN "-" ELSE "FAIL_PATH_NOT_FOUND"
                ec == error_class_from_response(f, natural)
                written == Applied(f) /\ natural = "-"
                overtime == expiry_overtime_mode[t]
            IN /\ faults' = Count(f)
               /\ atr' = IF written THEN [atr EXCEPT ![t] = NoEntry] ELSE atr
               /\ state' = [state EXCEPT ![t] = IF ec = "-" THEN "ROLLED_BACK" ELSE @]
               /\ IF ec = "-" \/ (~overtime /\ ec \in {"FAIL_DOC_NOT_FOUND", "FAIL_PATH_NOT_FOUND"})
                  THEN /\ is_done' = [is_done EXCEPT ![t] = TRUE]
                       /\ hist' = [hist EXCEPT ![t].rollback_ok = TRUE]
                       /\ Return(t)
                  ELSE IF overtime \/ ec \in {"FAIL_HARD", "FAIL_EXPIRY"}
                  THEN /\ Throw(t, AtrRollbackCompleteError(ec, overtime))
                       /\ UNCHANGED <<is_done, hist>>
                  ELSE UNCHANGED <<pc, cur, outcome, is_done, hist>>
  /\ UNCHANGED <<store, hadEntry, clock, attempts, start, atr_id, expiry_overtime_mode,
                 staged_mutations, got, cleaner>>

\* ------------------------------------------------------------------ run

\* transactions::run is called: it constructs the transaction_context, which takes
\* the start time, and the attempt (is_done_ false, empty queue, add_attempt), and
\* calls the body. Transaction t1 is the one that is run first, at time 0.
BeginRun(t) ==
  /\ UNCHANGED utilities
  /\ pc[t] = "idle"
  /\ clock <= hist[t].window
  /\ pc' = [pc EXCEPT ![t] = "body"]
  /\ start' = [start EXCEPT ![t] = clock]
  /\ attempts' = [attempts EXCEPT ![t] = @ + 1]
  /\ UNCHANGED <<store, atr, hadEntry, clock, state, is_done, atr_id,
                 expiry_overtime_mode, staged_mutations, cur, got, outcome, hist,
                 faults, cleaner>>

\* transactions::run after logic(ctx) returned: commit unless the attempt is done,
\* then the transaction_result.
BodyReturns(t) ==
  /\ UNCHANGED utilities
  /\ pc[t] = "body"
  /\ LET h == [hist[t] EXCEPT !.body_returned = TRUE]
     IN IF is_done[t]
        THEN /\ pc' = [pc EXCEPT ![t] = "done"]
             /\ outcome' = [outcome EXCEPT ![t] = Returned]
             /\ hist' = [hist EXCEPT ![t] = h]
             /\ UNCHANGED <<cur, is_done, expiry_overtime_mode>>
        ELSE commit(t, "run", [h EXCEPT !.run_commit = TRUE])
  /\ UNCHANGED <<store, atr, hadEntry, clock, attempts, start, state, atr_id, staged_mutations,
                 got, faults, cleaner>>

\* The error of the application that logic(ctx) throws.
BodyError == Err("BODY")

\* logic(ctx) throws an exception of its own: it leaves run.
BodyThrows(t) ==
  /\ UNCHANGED utilities
  /\ pc[t] = "body"
  /\ Throw(t, BodyError)
  /\ UNCHANGED <<store, atr, hadEntry, clock, attempts, start, state, is_done, atr_id,
                 expiry_overtime_mode, staged_mutations, got, hist, faults, cleaner>>

\* ----------------------------------------------------------------- time

\* Time passes: past the expiration of the transactions (1), past the expiry of
\* their ATR entries (2), past the safety margin of cleanup (3).
Tick ==
  /\ UNCHANGED utilities
  /\ \E t \in Txns : clock < hist[t].window + Expiry + 1
  /\ clock' = clock + 1
  /\ UNCHANGED <<store, atr, hadEntry, attempts, start, state, is_done, atr_id,
                 expiry_overtime_mode, staged_mutations, pc, cur, got, outcome, hist,
                 faults, cleaner>>

\* -------------------------------------------------- lost-attempt cleanup

Task(kind, ids) == [i \in 1..Len(ids) |-> [kind |-> kind, id |-> ids[i]]]

\* atr_cleanup_entry::cleanup_docs: what is done, in order, to the documents the
\* entry lists; nothing unless the entry is COMMITTED or ABORTED.
cleanup_docs(entry) ==
  CASE entry.status = "COMMITTED" ->
         Task("commit_docs", entry.ins) \o Task("commit_docs", entry.rep)
           \o Task("remove_docs_staged_for_removal", entry.rem)
    [] entry.status = "ABORTED" ->
         Task("remove_docs", entry.ins) \o Task("remove_txn_links", entry.rep)
           \o Task("remove_txn_links", entry.rem)
    [] OTHER -> <<>>

\* The lost-attempts scan finds the entry of attempt o expired beyond the safety
\* margin; atr_cleanup_entry::clean and check_atr_and_cleanup work on the entry as
\* it was read.
CleanStart(o) ==
  /\ UNCHANGED utilities
  /\ cleaner.phase = "idle"
  /\ HasEntry(o)
  /\ has_expired(atr[o], TRUE)
  /\ cleaner' = [phase |-> IF cleanup_docs(atr[o]) = <<>> THEN "entry" ELSE "docs",
                 txn |-> o, entry |-> atr[o], work |-> cleanup_docs(atr[o])]
  /\ UNCHANGED <<store, atr, hadEntry, clock, attempts, start, state, is_done, atr_id,
                 expiry_overtime_mode, staged_mutations, pc, cur, got, outcome, hist, faults>>

\* do_per_doc with the comparison of the attempt ids inverted.
skips_OwnAttempt(doc, o) ==
  \/ ~(has_staged_content(doc.link) \/ is_document_being_removed(doc.link))
  \/ ~has_staged_write(doc.link)
  \/ doc.link.txn = o

\* do_per_doc: the document is left alone when it has no staged write, or one of
\* another attempt.
skips(doc, o) ==
  \/ ~(has_staged_content(doc.link) \/ is_document_being_removed(doc.link))
  \/ ~has_staged_write(doc.link)
  \/ doc.link.txn # o

\* commit_docs, remove_docs, remove_docs_staged_for_removal and remove_txn_links:
\* the document the write of cleanup leaves of document doc.
cleaned_doc(kind, doc) ==
  CASE kind = "commit_docs" ->
         IF has_staged_content(doc.link)
         THEN Doc("live", doc.link.stgd, doc.cas + 1, NoLink) ELSE doc
    [] kind = "remove_docs" ->
         IF doc.st = "tomb" THEN [doc EXCEPT !.link = NoLink, !.cas = @ + 1]
         ELSE Doc("tomb", 0, doc.cas + 1, NoLink)
    [] kind = "remove_docs_staged_for_removal" ->
         IF is_document_being_removed(doc.link)
         THEN Doc("tomb", 0, doc.cas + 1, NoLink) ELSE doc
    [] OTHER -> [doc EXCEPT !.link = NoLink, !.cas = @ + 1]

\* do_per_doc, one document: its lookup and the write of cleanup that follows. A
\* missing document is ignored; any other error ends the cleanup of the entry.
CleanDoc ==
  /\ UNCHANGED utilities
  /\ cleaner.phase = "docs"
  /\ \E f \in WriteFates :
       LET task == Head(cleaner.work)
           d == task.id
           rest == Tail(cleaner.work)
           acts == store[d].st # "none" /\ ~skips(store[d], cleaner.txn)
       IN /\ faults' = Count(f)
          /\ store' = IF acts /\ Applied(f)
                      THEN [store EXCEPT ![d] = cleaned_doc(task.kind, @)]
                      ELSE store
          /\ cleaner' = IF f # "ok" THEN [phase |-> "idle", txn |-> "-", entry |-> NoEntry, work |-> <<>>]
                        ELSE [cleaner EXCEPT !.work = rest,
                                             !.phase = IF rest = <<>> THEN "entry" ELSE "docs"]
  /\ UNCHANGED <<atr, hadEntry, clock, attempts, start, state, is_done, atr_id,
                 expiry_overtime_mode, staged_mutations, pc, cur, got, outcome, hist>>

\* atr_cleanup_entry::cleanup_entry: "attempts" of the ATR document is replaced with
\* an empty object, which removes the entry of every attempt in that ATR.
cleanup_entry ==
  /\ UNCHANGED utilities
  /\ cleaner.phase = "entry"
  /\ \E f \in WriteFates :
       /\ faults' = Count(f)
       /\ atr' = IF Applied(f) THEN [t \in Txns |-> NoEntry] ELSE atr
  /\ cleaner' = [phase |-> "idle", txn |-> "-", entry |-> NoEntry, work |-> <<>>]
  /\ UNCHANGED <<store, hadEntry, clock, attempts, start, state, is_done, atr_id,
                 expiry_overtime_mode, staged_mutations, pc, cur, got, outcome, hist>>

\* ------------------------------------------- retry_op_exponential_backoff

\* This invocation of op raises retry_operation.
Raises(r) == r.always \/ r.calls < r.fails

\* The retries allowed are used up (with a bug: one retry too early).
RetriesUsedUp_OneShort(r) == r.retries + 1 >= r.max_retries

\* The retries allowed are used up.
RetriesUsedUp(r) == r.retries >= r.max_retries

\* retry_op_exponential_backoff(min, n, op) is called.
RetryBegin(n, always, fails) ==
  /\ backoff.pc = "idle"
  /\ backoff' = [pc |-> "call", max_retries |-> n, always |-> always, fails |-> fails,
               retries |-> 0, calls |-> 0]
  /\ UNCHANGED <<engine, pool, async, staging, cleanup_queue, sweep>>

\* op is invoked: its value is returned, or it raises retry_operation, which is
\* followed by a sleep, or by retry_operation_retries_exhausted when no retry is left.
RetryInvoke ==
  /\ backoff.pc = "call"
  /\ backoff' = [backoff EXCEPT !.calls = @ + 1,
                            !.pc = IF ~Raises(backoff) THEN "returned"
                                   ELSE IF RetriesUsedUp(backoff) THEN "exhausted"
                                   ELSE "sleep"]
  /\ UNCHANGED <<engine, pool, async, staging, cleanup_queue, sweep>>

\* The backoff sleep before the next retry.
RetrySleep ==
  /\ backoff.pc = "sleep"
  /\ backoff' = [backoff EXCEPT !.retries = @ + 1, !.pc = "call"]
  /\ UNCHANGED <<engine, pool, async, staging, cleanup_queue, sweep>>

\* -------------------------------------------------------------- Pool

\* Pool::size: the instances the pool has.
size == Cardinality(pool.all)

\* Pool::available: the instances a get can still hand out, those not created yet
\* included.
available == pool.max_size - Cardinality(pool.all) + Cardinality(pool.free)

\* The pool hands instance i to thread th.
Handed(th, i) ==
  [pool EXCEPT !.free = @ \ {i}, !.all = @ \cup {i}, !.holds[th] = @ \cup {i},
               !.last[th] = i, !.pc[th] = "run",
               !.created = IF i \in pool.all THEN @ ELSE i]

\* A pool that creates a new instance whatever max_size is.
MayCreate_Unbounded == TRUE

\* The pool may create an instance: it has fewer than max_size.
MayCreate == Cardinality(pool.all) < pool.max_size

\* Pool::get: a free instance, else a new one while the pool has fewer than
\* max_size, else the caller waits.
PoolGet(th) ==
  /\ pool.pc[th] = "run"
  /\ IF pool.free # {}
     THEN \E i \in pool.free : pool' = Handed(th, i)
     ELSE IF MayCreate
     THEN pool' = Handed(th, pool.created + 1)
     ELSE pool' = [pool EXCEPT !.pc[th] = "waiting"]
  /\ UNCHANGED <<engine, backoff, async, staging, cleanup_queue, sweep>>

\* Pool::get, the end of the wait: an instance is free again.
PoolWake(th) ==
  /\ pool.pc[th] = "waiting"
  /\ \E i \in pool.free : pool' = Handed(th, i)
  /\ UNCHANGED <<engine, backoff, async, staging, cleanup_queue, sweep>>

\* Pool::try_get: as get, but no value where get would wait.
PoolTryGet(th) ==
  /\ pool.pc[th] = "run"
  /\ IF pool.free # {}
     THEN \E i \in pool.free : pool' = Handed(th, i)
     ELSE IF MayCreate
     THEN pool' = Handed(th, pool.created + 1)
     ELSE pool' = [pool EXCEPT !.last[th] = 0]
  /\ UNCHANGED <<engine, backoff, async, staging, cleanup_queue, sweep>>

\* Pool::release of an instance the caller holds.
PoolRelease(th, i) ==
  /\ pool.pc[th] = "run"
  /\ i \in pool.holds[th]
  /\ pool' = [pool EXCEPT !.free = @ \cup {i}, !.holds[th] = @ \ {i}, !.by[i] = th]
  /\ UNCHANGED <<engine, backoff, async, staging, cleanup_queue, sweep>>

\* ------------------------------------- concurrent mutations of one attempt

\* The ATR document of vbucket v, and document d, as the places an ATR-PENDING
\* entry can be written to.
AtrDoc(v) == [kind |-> "atr", key |-> v]

PlainDoc(d) == [kind |-> "doc", key |-> d]

\* transactions::run constructs the attempt: an attempt_context_impl, or an
\* attempt_context.
AsyncRun(class) ==
  /\ async.class = "-"
  /\ async' = [async EXCEPT !.class = class]
  /\ UNCHANGED <<engine, backoff, pool, staging, cleanup_queue, sweep>>

\* insert_raw, replace_raw and remove of attempt_context_impl, up to their call of
\* select_atr_if_needed_unlocked: the body issues mutation m on document d and goes
\* on without waiting for it.
AsyncMutate(m, d, kind) ==
  /\ async.class = "impl"
  /\ async.op[m].pc = "idle"
  /\ async' = [async EXCEPT !.op[m] = [pc |-> "select", doc |-> d, kind |-> kind]]
  /\ UNCHANGED <<engine, backoff, pool, staging, cleanup_queue, sweep>>

\* select_atr_if_needed_unlocked that selects the ATR whether atr_id_ has a value or
\* not.
atr_exists_Unchecked == FALSE

\* select_atr_if_needed_unlocked: atr_id_ has a value.
atr_exists == async.atr_id # 0

\* select_atr_if_needed_unlocked, under mutex_: with atr_id_ set the mutation moves
\* on to its staging write; else it selects the ATR of its document and issues the
\* ATR-PENDING write (set_atr_pending_locked). The lock is a local of this function
\* and is released when it returns, with the write in flight.
SelectAtr(m) ==
  /\ async.op[m].pc = "select"
  /\ async' =
       IF atr_exists
       THEN [async EXCEPT !.op[m].pc = "stage",
                          !.first = IF @ = "-" THEN m ELSE @]
       ELSE [async EXCEPT !.atr_id = atr_id_for_vbucket(vbucket_for_key(async.op[m].doc)),
                          !.state = "NOT_STARTED",
                          !.selected_by = @ \cup {m},
                          !.pending_by = @ \cup {m},
                          !.first = IF @ = "-" THEN m ELSE @,
                          !.op[m].pc = "atr_pending"]
  /\ UNCHANGED <<engine, backoff, pool, staging, cleanup_queue, sweep>>

\* set_atr_pending_locked, the response to the ATR-PENDING write and its
\* error_handler: success sets the state PENDING; FAIL_AMBIGUOUS repeats the write,
\* whether or not the entry was written; FAIL_PATH_ALREADY_EXISTS (the entry is
\* there) moves on; FAIL_TRANSIENT fails the mutation.
AsyncAtrPending(m) ==
  /\ async.op[m].pc = "atr_pending"
  /\ LET here == AtrDoc(async.atr_id)
     IN \/ /\ here \notin async.entries
           /\ async' = [async EXCEPT !.entries = @ \cup {here}, !.state = "PENDING",
                                     !.op[m].pc = "stage"]
        \/ /\ here \in async.entries
           /\ async' = [async EXCEPT !.op[m].pc = "stage"]
        \/ /\ async.faults < MaxFaults
           /\ \E written \in BOOLEAN :
                async' = [async EXCEPT !.faults = @ + 1,
                                       !.entries = IF written THEN @ \cup {here} ELSE @]
        \/ /\ async.faults < MaxFaults
           /\ async' = [async EXCEPT !.faults = @ + 1, !.op[m].pc = "failed"]
  /\ UNCHANGED <<engine, backoff, pool, staging, cleanup_queue, sweep>>

\* create_staged_insert, and the staging mutate_in of replace_raw and remove: the
\* document is staged. unannounced: staged with no ATR-PENDING entry of the
\* attempt in its ATR (ghost).
AsyncStage(m) ==
  /\ async.op[m].pc = "stage"
  /\ async' = [async EXCEPT !.staged = @ \cup {async.op[m].doc},
                            !.unannounced =
                              IF AtrDoc(async.atr_id) \in async.entries THEN @
                              ELSE @ \cup {async.op[m].doc},
                            !.op[m].pc = "staged"]
  /\ UNCHANGED <<engine, backoff, pool, staging, cleanup_queue, sweep>>

\* attempt_context::insert, replace and remove, each a blocking call:
\* init_atr_if_needed selects the ATR only if atr_id_ has a value already, so it
\* never does; with the queue empty, insert and remove write the ATR-PENDING entry to
\* the document itself and replace reads atr_id_.value(), which throws; the staging
\* write reads atr_id_.value(), which throws.
SyncMutate(m, d, kind) ==
  /\ async.class = "sync"
  /\ async.op[m].pc = "idle"
  /\ \A o \in Mutations : async.op[o].pc \in {"idle", "failed", "staged"}
  /\ async' =
       IF atr_exists
       THEN [async EXCEPT !.atr_id = atr_id_for_vbucket(vbucket_for_key(d)),
                          !.state = "PENDING",
                          !.selected_by = @ \cup {m},
                          !.first = IF @ = "-" THEN m ELSE @,
                          !.staged = @ \cup {d},
                          !.op[m] = [pc |-> "staged", doc |-> d, kind |-> kind]]
       ELSE [async EXCEPT !.entries = IF kind = "replace" THEN @ ELSE @ \cup {PlainDoc(d)},
                          !.pending_by = IF kind = "replace" THEN @ ELSE @ \cup {m},
                          !.first = IF @ = "-" THEN m ELSE @,
                          !.op[m] = [pc |-> "failed", doc |-> d, kind |-> kind]]
  /\ UNCHANGED <<engine, backoff, pool, staging, cleanup_queue, sweep>>

\* -------------------------------------------------------- specifications

\* The documents the bodies work on when two transactions run concurrently.
SharedDocs == {"a"}

\* The steps of transaction t that involve no other attempt: the calls of its body
\* on documents of D, the storage requests of the operation in progress, and the
\* end of the body.
Own(t, D) ==
  \/ BeginRun(t)
  \/ \E d \in D : BeginGet(t, d)
  \/ \E d \in D : BeginGetOptional(t, d)
  \/ GetDoc(t)
  \/ \E d \in D : BeginReplace(t, d)
  \/ \E d \in D : BeginRemove(t, d)
  \/ \E d \in D : BeginInsert(t, d)
  \/ AtrPending(t)
  \/ StageReplace(t)
  \/ StageRemove(t)
  \/ StageInsert(t)
  \/ InsertGet(t)
  \/ BeginCommit(t)
  \/ AtrCommit(t)
  \/ AtrCommitAmbiguityResolution(t)
  \/ Unstage(t)
  \/ AtrComplete(t)
  \/ BeginRollback(t)
  \/ AtrAbort(t)
  \/ RollbackUnstage(t)
  \/ AtrRollbackComplete(t)
  \/ BodyReturns(t)
  \/ BodyThrows(t)

\* The steps of transaction t that read the ATR entry of another attempt.
Foreign(t) ==
  \/ GetAtr(t)
  \/ Block(t)

Cleanup ==
  \/ \E o \in Txns : CleanStart(o)
  \/ CleanDoc
  \/ cleanup_entry

\* Two transactions run concurrently on the shared documents, with cleanup.
Next ==
  \/ \E t \in Txns : Own(t, SharedDocs)
  \/ \E t \in Txns : Foreign(t)
  \/ Tick
  \/ Cleanup

Spec == Init /\ [][Next]_vars

\* The steps of a transaction t whose body only inserts documents of D and
\* returns, so that run commits.
Inserts(t, D) ==
  \/ BeginRun(t)
  \/ \E d \in D : BeginInsert(t, d)
  \/ AtrPending(t)
  \/ StageInsert(t)
  \/ InsertGet(t)
  \/ BodyReturns(t)
  \/ AtrCommit(t)
  \/ AtrCommitAmbiguityResolution(t)
  \/ Unstage(t)
  \/ AtrComplete(t)

\* The document that does not exist at first.
NewDocs == {"b"}

\* A transaction that inserts runs concurrently with a transaction of any
\* kind, on the document that does not exist at first, with cleanup.
NextInsert ==
  \/ Inserts("t1", NewDocs)
  \/ Own("t2", NewDocs)
  \/ \E t \in Txns : Foreign(t)
  \/ Tick
  \/ Cleanup

SpecInsert == Init /\ [][NextInsert]_vars

\* The steps of a transaction t whose body gets and removes documents of D and
\* returns, so that run commits (ThreadedTransactions, CanInsertThenGetRemove).
Removes(t, D) ==
  \/ BeginRun(t)
  \/ \E d \in D : BeginGet(t, d)
  \/ GetDoc(t)
  \/ \E d \in D : BeginRemove(t, d)
  \/ AtrPending(t)
  \/ StageRemove(t)
  \/ BodyReturns(t)
  \/ AtrCommit(t)
  \/ AtrCommitAmbiguityResolution(t)
  \/ Unstage(t)
  \/ AtrComplete(t)

\* Two transactions on different documents, with their entries in the same ATR
\* document: one gets and removes the existing document, the other inserts the
\* new one; with cleanup.
NextApart ==
  \/ Removes("t1", SharedDocs)
  \/ Inserts("t2", NewDocs)
  \/ Tick
  \/ Cleanup

InitApart == Constructed(MaxOps, MaxLateStart)

SpecApart == InitApart /\ [][NextApart]_vars

\* One transaction runs alone on all documents, with cleanup.
NextSolo ==
  \/ Own("t1", Docs)
  \/ Tick
  \/ Cleanup

InitSolo == Constructed(MaxSoloOps, MaxStart)

SpecSolo == InitSolo /\ [][NextSolo]_vars

\* One transaction runs alone on the document that exists; its body may go on
\* after the attempt has committed.
NextLate ==
  \/ Own("t1", SharedDocs)
  \/ Tick

InitLate == Constructed(MaxLateOps, MaxStart)

SpecLate == InitLate /\ [][NextLate]_vars

\* One transaction runs alone; time passes and the lost-attempts scan keeps running.
FairSolo == SpecSolo /\ WF_vars(Tick) /\ WF_vars(Cleanup)

\* ------------------------------------ the pointer from a document to its ATR

\* collection_spec_from_id: scope.collection of a document id.
collection_spec_from_id(id) == id.coll

\* select_atr_if_needed_unlocked: the ATR of the attempt when its mutation of
\* document id comes: the one selected before or, for the first mutation, the ATR of
\* the vbucket of the key, in _default._default of the bucket of the document.
SelectedAtr(id) ==
  IF staging.atr_id # NoDocumentId THEN staging.atr_id
  ELSE [bkt |-> id.bkt, coll |-> "_default._default",
        key |-> atr_id_for_vbucket(vbucket_for_key(id.key))]

\* create_staging_request (replace, remove) and create_staged_insert: the txn.atr.id,
\* txn.atr.bkt and txn.atr.coll specs of the staging write of document id by an
\* attempt whose ATR is target.
PointerTo(id, kind, target) ==
  [id |-> target.key,
   bkt |-> id.bkt,
   coll |-> IF kind = "insert" THEN collection_spec_from_id(id) ELSE collection_spec_from_id(target)]

\* insert_raw, replace_raw or remove of document id by an attempt that runs its
\* mutations one after the other, every request served: the ATR is selected if
\* this is the first mutation, and the document is staged.
StageDocument(id, kind) ==
  /\ staging.n < MaxStaged
  /\ staging.xattrs[id] = NoPointer
  /\ LET target == SelectedAtr(id)
     IN staging' = [staging EXCEPT !.atr_id = target,
                                   !.xattrs[id] = PointerTo(id, kind, target),
                                   !.n = @ + 1]
  /\ UNCHANGED <<engine, backoff, pool, async, cleanup_queue, sweep>>

\* ------------------------------------------------------- cleanup queue

\* The comparison without the flip: true if lhs has the earlier min_start_time_.
compare_atr_entries_Unflipped(lhs, rhs) ==
  cleanup_queue.min_start_time_[lhs] < cleanup_queue.min_start_time_[rhs]

\* compare_atr_entries::operator(): the order of the priority queue, true if lhs
\* has the later min_start_time_.
compare_atr_entries(lhs, rhs) ==
  cleanup_queue.min_start_time_[lhs] > cleanup_queue.min_start_time_[rhs]

\* queue_.top() of the entries q: an entry no other entry is ordered after. pop
\* calls it on a non-empty queue only.
Top(q) ==
  IF q = {} THEN "-" ELSE CHOOSE e \in q : \A o \in q : ~compare_atr_entries(e, o)

\* atr_cleanup_entry::ready.
ready(e) == cleanup_queue.now > cleanup_queue.min_start_time_[e]

\* Entry e is the next one to construct.
Fresh(e) ==
  \E i \in 1..Len(EntryNames) :
    /\ EntryNames[i] = e
    /\ \A j \in 1..i : cleanup_queue.made[EntryNames[j]] = "no" <=> j = i

\* The steady clock advances.
QueueTick ==
  /\ cleanup_queue.now < MaxNow
  /\ cleanup_queue' = [cleanup_queue EXCEPT !.now = @ + 1]
  /\ UNCHANGED <<engine, backoff, pool, async, staging, sweep>>

\* atr_cleanup_entry(attempt_context&), called outside the queue: the entry takes
\* the time of its construction as its min_start_time_.
Construct(e) ==
  /\ Fresh(e)
  /\ cleanup_queue' = [cleanup_queue EXCEPT !.made[e] = "built",
                                            !.min_start_time_[e] = cleanup_queue.now]
  /\ UNCHANGED <<engine, backoff, pool, async, staging, sweep>>

\* Thread w calls push(attempt_context&), which will construct entry e.
PushCtxCall(w, e) ==
  /\ cleanup_queue.pc[w] = "idle"
  /\ Fresh(e)
  /\ cleanup_queue' = [cleanup_queue EXCEPT !.pc[w] = "lock_emplace", !.arg[w] = e,
                                            !.made[e] = "given"]
  /\ UNCHANGED <<engine, backoff, pool, async, staging, sweep>>

\* Thread w calls push(const atr_cleanup_entry&) with the constructed entry e.
PushCall(w, e) ==
  /\ cleanup_queue.pc[w] = "idle"
  /\ cleanup_queue.made[e] = "built"
  /\ cleanup_queue' = [cleanup_queue EXCEPT !.pc[w] = "lock_push", !.arg[w] = e,
                                            !.made[e] = "given"]
  /\ UNCHANGED <<engine, backoff, pool, async, staging, sweep>>

\* Thread w calls pop(check_time).
PopCall(w, check_time) ==
  /\ cleanup_queue.pc[w] = "idle"
  /\ cleanup_queue' = [cleanup_queue EXCEPT !.pc[w] = "lock_pop",
                                            !.check_time[w] = check_time]
  /\ UNCHANGED <<engine, backoff, pool, async, staging, sweep>>

\* The threads that are at the first statement of push or pop.
Locking == {"lock_emplace", "lock_push", "lock_pop"}

\* std::unique_lock<std::mutex> lock(mutex_), the first statement of both push
\* overloads and of pop, with the lock taken.
Lock_NotExclusive(w) ==
  /\ cleanup_queue.pc[w] \in Locking
  /\ cleanup_queue' =
       [cleanup_queue EXCEPT !.mutex_ = w,
                             !.pc[w] = IF @ = "lock_emplace" THEN "emplace"
                                       ELSE IF @ = "lock_push" THEN "push" ELSE "test"]
  /\ UNCHANGED <<engine, backoff, pool, async, staging, sweep>>

\* std::unique_lock<std::mutex> lock(mutex_), the first statement of both push
\* overloads and of pop: the thread goes on once the mutex is free, and holds it.
Lock(w) ==
  /\ cleanup_queue.pc[w] \in Locking
  /\ cleanup_queue.mutex_ = "-"
  /\ cleanup_queue' =
       [cleanup_queue EXCEPT !.mutex_ = w,
                             !.pc[w] = IF @ = "lock_emplace" THEN "emplace"
                                       ELSE IF @ = "lock_push" THEN "push" ELSE "test"]
  /\ UNCHANGED <<engine, backoff, pool, async, staging, sweep>>

\* The rest of push: queue_.emplace(ctx), which constructs the entry with the
\* current time, or queue_.push(e); the return releases the mutex.
PushBody(w) ==
  /\ cleanup_queue.pc[w] \in {"emplace", "push"}
  /\ LET e == cleanup_queue.arg[w]
     IN cleanup_queue' =
          [cleanup_queue EXCEPT !.queue_ = @ \cup {e},
                                !.min_start_time_[e] =
                                   IF cleanup_queue.pc[w] = "emplace" THEN cleanup_queue.now ELSE @,
                                !.made[e] = "pushed",
                                !.log = Append(@, [op |-> "push", e |-> e]),
                                !.mutex_ = "-", !.pc[w] = "idle", !.arg[w] = "-"]
  /\ UNCHANGED <<engine, backoff, pool, async, staging, sweep>>

\* pop, its two conditions: the queue is not empty, and check_time is false or the
\* top is ready. Otherwise pop returns no value and releases the mutex.
PopTest(w) ==
  /\ cleanup_queue.pc[w] = "test"
  /\ LET q == cleanup_queue.queue_
         top == Top(q)
     IN IF q # {} /\ (~cleanup_queue.check_time[w] \/ ready(top))
        THEN cleanup_queue' = [cleanup_queue EXCEPT !.pc[w] = "copy", !.checked[w] = top]
        ELSE cleanup_queue' = [cleanup_queue EXCEPT !.pc[w] = "idle", !.check_time[w] = FALSE,
                                                    !.mutex_ = "-"]
  /\ UNCHANGED <<engine, backoff, pool, async, staging, sweep>>

\* pop: atr_cleanup_entry top = queue_.top().
PopCopy(w) ==
  /\ cleanup_queue.pc[w] = "copy"
  /\ cleanup_queue' = [cleanup_queue EXCEPT !.pc[w] = "pop",
                                            !.top[w] = Top(cleanup_queue.queue_)]
  /\ UNCHANGED <<engine, backoff, pool, async, staging, sweep>>

\* pop: queue_.pop().
PopPop(w) ==
  /\ cleanup_queue.pc[w] = "pop"
  /\ cleanup_queue' = [cleanup_queue EXCEPT !.pc[w] = "return",
                                            !.queue_ = @ \ {Top(cleanup_queue.queue_)}]
  /\ UNCHANGED <<engine, backoff, pool, async, staging, sweep>>

\* pop: return { top }, which releases the mutex.
PopReturn(w) ==
  /\ cleanup_queue.pc[w] = "return"
  /\ LET e == cleanup_queue.top[w]
     IN cleanup_queue' =
          [cleanup_queue EXCEPT !.pc[w] = "idle", !.mutex_ = "-",
                                !.check_time[w] = FALSE, !.checked[w] = "-", !.top[w] = "-",
                                !.log = Append(@, [op |-> "pop", e |-> e])]
  /\ UNCHANGED <<engine, backoff, pool, async, staging, sweep>>

\* ------------------------------------------- cleanup, request by request

\* The attempt whose entry is cleaned, and another attempt.
Cleaned == "t1"

Stranger == "t2"

\* What the abandoned attempt did to a document its entry lists: it staged an
\* insert, a replace or a remove, or the document is no longer there.
Stagings == {"insert", "replace", "remove", "gone"}

\* The document an attempt leaves when it stages kind on it.
staged_doc(kind) ==
  CASE kind = "insert" -> Doc("tomb", 0, 1, Link(Cleaned, "insert", StagedContent))
    [] kind = "replace" -> Doc("live", BodyBefore, 1, Link(Cleaned, "replace", StagedContent))
    [] kind = "remove" -> Doc("live", BodyBefore, 1, Link(Cleaned, "remove", 0))
    [] OTHER -> Doc("none", 0, 0, NoLink)

\* The ids of the documents of seq the attempt handled as listed in kinds.
Listed(seq, kinds, kind) ==
  SelectSeq(seq, LAMBDA d : kinds[d] = kind \/ (kind = "insert" /\ kinds[d] = "gone"))

\* An attempt was abandoned after its ATR-COMMIT or its ATR-ABORT: its entry has
\* status status and lists the documents, each staged as kinds tells.
Abandon(status, kinds, fc_ok) ==
  /\ ~sweep.set
  /\ LET seq == <<"a", "b">>
     IN sweep' =
          [sweep EXCEPT !.set = TRUE,
                        !.entry = [status |-> status, ts |-> 0,
                                   ins |-> Listed(seq, kinds, "insert"),
                                   rep |-> Listed(seq, kinds, "replace"),
                                   rem |-> Listed(seq, kinds, "remove")],
                        !.fc_ok = fc_ok,
                        !.docs = [d \in Docs |-> staged_doc(kinds[d])],
                        !.crc = [d \in Docs |-> IF kinds[d] = "gone" THEN -1
                                                ELSE crc32(staged_doc(kinds[d]).body)]]
  /\ UNCHANGED <<engine, backoff, pool, async, staging, cleanup_queue>>

\* The requests another party may still send.
OtherActs == sweep.set /\ sweep.others < MaxOther

\* What a write of another party does to the ghost fields of document d.
AfterOther(d) ==
  [sweep EXCEPT !.others = @ + 1, !.later[d] = sweep.unstaged[d] > 0]

\* A writer outside transactions replaces the body of document d: the xattrs stay.
OtherReplace(d, body) ==
  /\ OtherActs
  /\ sweep.docs[d].st = "live"
  /\ sweep' = [AfterOther(d) EXCEPT !.docs[d].body = body, !.docs[d].cas = @ + 1]
  /\ UNCHANGED <<engine, backoff, pool, async, staging, cleanup_queue>>

\* A writer outside transactions removes document d, and its xattrs with it.
OtherRemove(d) ==
  /\ OtherActs
  /\ sweep.docs[d].st = "live"
  /\ sweep' = [AfterOther(d) EXCEPT !.docs[d] = Doc("tomb", 0, @.cas + 1, NoLink),
                                    !.crc[d] = -1]
  /\ UNCHANGED <<engine, backoff, pool, async, staging, cleanup_queue>>

\* A writer outside transactions inserts document d, which does not exist or is a
\* tombstone.
OtherInsert(d, body) ==
  /\ OtherActs
  /\ sweep.docs[d].st # "live"
  /\ sweep' = [AfterOther(d) EXCEPT !.docs[d] = Doc("live", body, @.cas + 1, NoLink),
                                    !.crc[d] = -1]
  /\ UNCHANGED <<engine, backoff, pool, async, staging, cleanup_queue>>

\* Another attempt stages a replace of document d, which carries no staged write.
OtherStage(d) ==
  /\ OtherActs
  /\ sweep.docs[d].st = "live"
  /\ sweep.docs[d].link = NoLink
  /\ sweep' = [AfterOther(d) EXCEPT !.docs[d].link = Link(Stranger, "replace", StagedContent),
                                    !.docs[d].cas = @ + 1,
                                    !.crc[d] = crc32(sweep.docs[d].body)]
  /\ UNCHANGED <<engine, backoff, pool, async, staging, cleanup_queue>>

\* forward_compat::check at CLEANUP_ENTRY of the forward_compat of the entry.
forward_compat_check == sweep.fc_ok

\* clean and check_atr_and_cleanup without the forward-compat check.
Clean_Unchecked(r) ==
  /\ sweep.set
  /\ sweep.run[r].pc = "idle"
  /\ LET entry == sweep.entry
         work == cleanup_docs(entry)
     IN sweep' =
          [sweep EXCEPT !.run[r] =
             IF entry.status = "NONE" THEN [@ EXCEPT !.pc = "done"]
             ELSE [@ EXCEPT !.pc = IF work = <<>> THEN "entry" ELSE "lookup", !.work = work]]
  /\ UNCHANGED <<engine, backoff, pool, async, staging, cleanup_queue>>

\* atr_cleanup_entry::clean and check_atr_and_cleanup up to cleanup_docs, of run r:
\* the entry is read from the ATR; there is nothing to clean when it is not there;
\* a failed forward-compat check raises.
Clean(r) ==
  /\ sweep.set
  /\ sweep.run[r].pc = "idle"
  /\ LET entry == sweep.entry
         work == cleanup_docs(entry)
     IN sweep' =
          [sweep EXCEPT !.run[r] =
             IF entry.status = "NONE" THEN [@ EXCEPT !.pc = "done"]
             ELSE IF ~forward_compat_check
             THEN [@ EXCEPT !.pc = "stopped", !.stopped = "forward_compat"]
             ELSE [@ EXCEPT !.pc = IF work = <<>> THEN "entry" ELSE "lookup", !.work = work]]
  /\ UNCHANGED <<engine, backoff, pool, async, staging, cleanup_queue>>

\* The outcomes of a lookup and of a write of cleanup.
LookupFates == IF sweep.faults < MaxFaults THEN {"ok", "transient"} ELSE {"ok"}

CallFates == IF sweep.faults < MaxFaults THEN {"ok", "amb_applied", "transient"} ELSE {"ok"}

\* The cleanup run goes on with the next document, or with cleanup_entry.
NextDoc(run) ==
  [run EXCEPT !.work = Tail(@), !.fetched = "-",
              !.pc = IF Tail(run.work) = <<>> THEN "entry" ELSE "lookup"]

\* do_per_doc, the require_crc_to_match its callers pass.
require_crc_to_match(kind) == kind # "remove_txn_links"

\* do_per_doc without the comparison of the attempt ids.
passes_AnyAttempt(kind, doc, crc) ==
  /\ has_staged_content(doc.link) \/ is_document_being_removed(doc.link)
  /\ has_staged_write(doc.link)
  /\ require_crc_to_match(kind) => (crc # -1 /\ crc = crc32(doc.body))

\* do_per_doc, the conditions under which it calls the function on the fetched
\* document: a staged write of this attempt and, if required, a txn.op.crc32 equal
\* to the value_crc32c of the document.
passes(kind, doc, crc) ==
  /\ ~skips(doc, Cleaned)
  /\ require_crc_to_match(kind) => (crc # -1 /\ crc = crc32(doc.body))

\* do_per_doc, the lookup of the next document: a document that is not found or
\* does not pass is skipped; any other error of the lookup is raised.
DoPerDocLookup(r) ==
  /\ sweep.run[r].pc = "lookup"
  /\ \E f \in LookupFates :
       LET run == sweep.run[r]
           task == Head(run.work)
           doc == sweep.docs[task.id]
       IN sweep' =
            [sweep EXCEPT !.faults = IF f = "ok" THEN @ ELSE @ + 1,
                          !.run[r] =
                             IF f # "ok" THEN [@ EXCEPT !.pc = "stopped", !.stopped = "lookup"]
                             ELSE IF doc.st = "none" \/ ~passes(task.kind, doc, sweep.crc[task.id])
                             THEN NextDoc(run)
                             ELSE [@ EXCEPT !.pc = "call", !.fetched = doc]]
  /\ UNCHANGED <<engine, backoff, pool, async, staging, cleanup_queue>>

\* The request the function of kind sends for the fetched document: "-" if none,
\* "insert" (no CAS), "set_doc" (xattrs removed and body set, with CAS),
\* "remove_links" (xattrs removed, with CAS, tombstones included) or "remove" (with
\* CAS).
request(kind, fetched) ==
  CASE kind = "commit_docs" ->
         IF ~has_staged_content(fetched.link) THEN "-"
         ELSE IF fetched.st = "tomb" THEN "insert" ELSE "set_doc"
    [] kind = "remove_docs" -> IF fetched.st = "tomb" THEN "remove_links" ELSE "remove"
    [] kind = "remove_docs_staged_for_removal" ->
         IF is_document_being_removed(fetched.link) THEN "remove" ELSE "-"
    [] OTHER -> "remove_links"

\* The error class the storage answers request req with, "-" if it serves it.
answer(req, fetched, doc) ==
  CASE req = "insert" -> IF doc.st = "live" THEN "FAIL_DOC_ALREADY_EXISTS" ELSE "-"
    [] req = "remove_links" ->
         IF doc.st = "none" THEN "FAIL_DOC_NOT_FOUND"
         ELSE IF doc.cas # fetched.cas THEN "FAIL_CAS_MISMATCH" ELSE "-"
    [] OTHER ->
         IF doc.st # "live" THEN "FAIL_DOC_NOT_FOUND"
         ELSE IF doc.cas # fetched.cas THEN "FAIL_CAS_MISMATCH" ELSE "-"

\* The document request req leaves of doc when it is served.
served(req, fetched, doc) ==
  CASE req = "insert" -> Doc("live", fetched.link.stgd, doc.cas + 1, NoLink)
    [] req = "set_doc" -> Doc("live", fetched.link.stgd, doc.cas + 1, NoLink)
    [] req = "remove_links" -> [doc EXCEPT !.link = NoLink, !.cas = @ + 1]
    [] OTHER -> Doc("tomb", 0, doc.cas + 1, NoLink)

\* do_per_doc, the call of the function on the fetched document: its one request,
\* if any. FAIL_DOC_NOT_FOUND is ignored; any other error is raised.
DoPerDocCall(r) ==
  /\ sweep.run[r].pc = "call"
  /\ LET run == sweep.run[r]
         task == Head(run.work)
         d == task.id
         req == request(task.kind, run.fetched)
     IN IF req = "-"
        THEN sweep' = [sweep EXCEPT !.run[r] = NextDoc(run)]
        ELSE \E f \in CallFates :
               LET natural == answer(req, run.fetched, sweep.docs[d])
                   ec == error_class_from_response(f, natural)
                   written == Applied(f) /\ natural = "-"
               IN sweep' =
                    [sweep EXCEPT
                       !.faults = IF f = "ok" THEN @ ELSE @ + 1,
                       !.docs[d] = IF written THEN served(req, run.fetched, @) ELSE @,
                       !.crc[d] = IF written THEN -1 ELSE @,
                       !.unstaged[d] = IF written THEN @ + 1 ELSE @,
                       !.run[r] =
                          IF ec \in {"-", "FAIL_DOC_NOT_FOUND"}
                          THEN [NextDoc(run) EXCEPT !.wrote = IF written THEN @ + 1 ELSE @]
                          ELSE [run EXCEPT !.pc = "stopped", !.stopped = "call",
                                           !.wrote = IF written THEN @ + 1 ELSE @]]
  /\ UNCHANGED <<engine, backoff, pool, async, staging, cleanup_queue>>

\* atr_cleanup_entry::cleanup_entry of run r: "attempts" of the ATR document is
\* replaced with an empty object; an error is raised.
CleanupEntry(r) ==
  /\ sweep.run[r].pc = "entry"
  /\ \E f \in CallFates :
       sweep' = [sweep EXCEPT !.faults = IF f = "ok" THEN @ ELSE @ + 1,
                              !.entry = IF Applied(f) THEN NoEntry ELSE @,
                              !.run[r].pc = IF f = "ok" THEN "done" ELSE "stopped",
                              !.run[r].stopped = IF f = "ok" THEN @ ELSE "entry"]
  /\ UNCHANGED <<engine, backoff, pool, async, staging, cleanup_queue>>

\* One call of retry_op_exponential_backoff, for every number of retries and every
\* op that raises always, or a number of times and then returns.
NextRetry ==
  \/ \E n \in 0..MaxRetries : \E always \in BOOLEAN : \E fails \in 0..MaxRetries :
       RetryBegin(n, always, IF always THEN 0 ELSE fails)
  \/ RetryInvoke
  \/ RetrySleep

SpecRetry == Init /\ [][NextRetry]_vars

\* One attempt whose body issues up to two mutations, concurrently when the attempt
\* is an attempt_context_impl.
NextAsync ==
  \/ \E class \in {"impl", "sync"} : AsyncRun(class)
  \/ \E m \in Mutations : \E d \in Docs : \E kind \in Kinds : AsyncMutate(m, d, kind)
  \/ \E m \in Mutations : SelectAtr(m)
  \/ \E m \in Mutations : AsyncAtrPending(m)
  \/ \E m \in Mutations : AsyncStage(m)
  \/ \E m \in Mutations : \E d \in Docs : \E kind \in Kinds : SyncMutate(m, d, kind)

SpecAsync == Init /\ [][NextAsync]_vars

\* Threads get, try to get and release instances of one pool.
NextPool ==
  \/ \E th \in Threads : PoolGet(th)
  \/ \E th \in Threads : PoolWake(th)
  \/ \E th \in Threads : PoolTryGet(th)
  \/ \E th \in Threads : \E i \in 1..PoolSize : PoolRelease(th, i)

SpecPool == Init /\ [][NextPool]_vars

\* One attempt stages documents of several buckets and collections.
NextStaging ==
  \E id \in DocumentIds : \E kind \in Kinds : StageDocument(id, kind)

SpecStaging == Init /\ [][NextStaging]_vars

\* Threads push entries to one cleanup queue and pop from it, with and without
\* check_time, while the clock advances.
NextQueue ==
  \/ QueueTick
  \/ \E e \in Entries : Construct(e)
  \/ \E w \in Workers : \E e \in Entries : PushCtxCall(w, e)
  \/ \E w \in Workers : \E e \in Entries : PushCall(w, e)
  \/ \E w \in Workers : \E check_time \in BOOLEAN : PopCall(w, check_time)
  \/ \E w \in Workers : Lock(w)
  \/ \E w \in Workers : PushBody(w)
  \/ \E w \in Workers : PopTest(w)
  \/ \E w \in Workers : PopCopy(w)
  \/ \E w \in Workers : PopPop(w)
  \/ \E w \in Workers : PopReturn(w)

SpecQueue == Init /\ [][NextQueue]_vars

\* Two cleanup runs work on the entry of an abandoned attempt while other parties
\* write to its documents.
NextSweep ==
  \/ \E status \in {"COMMITTED", "ABORTED"} : \E kinds \in [Docs -> Stagings] :
       \E fc_ok \in BOOLEAN : Abandon(status, kinds, fc_ok)
  \/ \E d \in Docs : \E body \in OtherBodies : OtherReplace(d, body)
  \/ \E d \in Docs : OtherRemove(d)
  \/ \E d \in Docs : \E body \in OtherBodies : OtherInsert(d, body)
  \/ \E d \in Docs : OtherStage(d)
  \/ \E r \in Runs : Clean(r)
  \/ \E r \in Runs : DoPerDocLookup(r)
  \/ \E r \in Runs : DoPerDocCall(r)
  \/ \E r \in Runs : CleanupEntry(r)

SpecSweep == Init /\ [][NextSweep]_vars

\* The call goes on: op returns and the sleep ends.
FairRetry == SpecRetry /\ WF_vars(RetryInvoke) /\ WF_vars(RetrySleep)

\* The steps of rollback of transaction t after its first check.
Rollback(t) ==
  \/ AtrAbort(t)
  \/ RollbackUnstage(t)
  \/ AtrRollbackComplete(t)

\* One transaction runs alone and a rollback that has begun goes on: every request
\* it sends is answered.
FairRollback == SpecSolo /\ WF_vars(Rollback("t1"))

\* ------------------------------------------------------------ properties

\* run has ended for transaction t.
Done(t) == pc[t] = "done"

\* The documents in the staged-mutation queue of attempt t.
Queued(t) == {staged_mutations[t][i].id : i \in 1..Len(staged_mutations[t])}

\* Document d carries txn.* xattrs of attempt t.
Carries(d, t) == store[d].link.txn = t

\* C1: after commit() returned successfully on an attempt the body did not use
\* afterwards, a plain read of every document in the
\* queue of the attempt returns the content the attempt staged for it last (INSERT,
\* REPLACE) or finds no document (REMOVE).
C1_CommitPublishesStaged ==
  \A t \in Txns :
    hist[t].commit_ok /\ ~hist[t].late =>
      \A i \in 1..Len(staged_mutations[t]) :
        LET m == staged_mutations[t][i]
        IN PlainGet(m.id) = (IF m.type = "REMOVE" THEN 0 ELSE hist[t].last[m.id])

\* C2: after rollback() of an attempt that staged mutations returned, and the body
\* did not use the attempt afterwards, every document
\* in its queue shows a plain read the body it had when it was staged and carries no
\* txn.* xattrs of the attempt.
C2_RollbackRestores ==
  \A t \in Txns :
    hist[t].rollback_ok /\ ~hist[t].late =>
      \A d \in Queued(t) : PlainGet(d) = hist[t].pre[d] /\ ~Carries(d, t)

\* C3: when no storage error occurred, a get of a document whose staging attempt
\* was COMMITTED when the document was fetched never returns anything but the
\* post-commit value.
C3_GetSeesCommitted == \A t \in Txns : faults = 0 => ~hist[t].stale

\* The attempt of t has reached COMMITTED.
Committed(t) == state[t] \in {"COMMITTED", "COMPLETED"}

\* C4: no update is lost: when no storage error occurred, two attempts that reached
\* COMMITTED never both staged a replace of the same document computed from the
\* same value read.
C4_NoLostUpdate ==
  \A t \in Txns : \A o \in Txns \ {t} :
    Committed(t) /\ Committed(o) /\ faults = 0 =>
      \A i \in find_replace(staged_mutations[t], "a") :
        \A j \in find_replace(staged_mutations[o], "a") :
          staged_mutations[t][i].content # staged_mutations[o][j].content

\* The moves of the status of an ATR entry along the DAG; had tells that an entry
\* of the attempt was stored before. The removal of the entry stands for the
\* terminal statuses.
AlongDAG(from, to, had) ==
  \/ from = to
  \/ from = "NONE" /\ to = "PENDING" /\ ~had
  \/ from = "PENDING" /\ to \in {"COMMITTED", "ABORTED"}
  \/ from # "NONE" /\ to = "NONE"

\* C5: when no storage error occurred, the status stored in the ATR entry of every
\* attempt only moves along NOT_STARTED -> PENDING -> COMMITTED -> COMPLETED or
\* NOT_STARTED -> PENDING -> ABORTED -> ROLLED_BACK.
C5_StatusFollowsDAG ==
  [][faults' = 0 => \A t \in Txns : AlongDAG(atr[t].status, atr'[t].status, hadEntry[t])]_vars

\* An ATR entry of the attempt whose txn.* xattrs a document carries was stored at
\* some earlier time.
XattrsHadEntry == \A d \in Docs : \A t \in Txns : Carries(d, t) => hadEntry[t]

\* run has ended for transaction t and left an ATR entry of its attempt.
Abandoned(t) == Done(t) /\ HasEntry(t)

C7_OneTerminalOutcome ==
  \A t \in Txns :
    Done(t) =>
      \/ outcome[t].kind = "threw"
      \/ outcome[t].kind = "returned"
           /\ (state[t] \in {"COMPLETED", "ROLLED_BACK"} \/ ~atr_id[t])

\* C8: when run ended with a failure that carries retry, neither expired nor
\* no_rollback, and the transaction has not expired, run started another attempt.
C8_RetriesRetryable ==
  \A t \in Txns :
    (/\ Done(t)
     /\ outcome[t].kind = "threw"
     /\ outcome[t].err.retry
     /\ ~outcome[t].err.expired
     /\ ~outcome[t].err.no_rollback
     /\ ~has_expired_client_side(t))
    => attempts[t] > 1

\* C9: when run ended because the body threw after the attempt staged mutations,
\* the staged writes are reversed and the ATR entry is removed.
C9_RunRollsBack ==
  \A t \in Txns :
    (/\ Done(t)
     /\ outcome[t] = Threw(BodyError)
     /\ ~is_done[t]
     /\ staged_mutations[t] # <<>>)
    => /\ ~HasEntry(t)
       /\ \A d \in Queued(t) : ~Carries(d, t) /\ PlainGet(d) = hist[t].pre[d]

\* C10: a commit() or rollback() called after commit() returned raises FAIL_OTHER
\* flagged no-rollback.
C10_SecondCallRefused ==
  \A t \in Txns :
    hist[t].after_commit.call # "-" =>
      /\ hist[t].after_commit.kind = "threw"
      /\ hist[t].after_commit.err = no_rollback(Err("FAIL_OTHER"))

\* The steps of get, insert, replace and remove that issue a storage operation
\* (a lookup, the ATR write, a staging write) or change the queue.
StorageSteps == {"get_doc", "get_atr", "block", "atr_pending", "stage", "ins_get"}

\* C11: once the attempt is done (after commit or rollback), a further get,
\* insert, replace or remove is refused before anything else happens: it never
\* reaches a step that issues a storage operation or changes the queue.
C11_DoneAttemptRefuses ==
  \A t \in Txns : hist[t].late => pc[t] \notin StorageSteps

\* A get or get_optional of d by the running, unexpired attempt t.
Reads(t, d) ==
  /\ ~is_done[t]
  /\ ~has_expired_client_side(t)
  /\ BeginGet(t, d) \/ BeginGetOptional(t, d)

\* C12: a get of a document the attempt itself inserted or replaced returns,
\* without a read of the store, the content the attempt staged last with the CAS
\* of that staging write; a get of a document it removed fails with
\* document-not-found and a get_optional of it returns the empty result.
C12_GetSeesOwnWrite ==
  [][\A t \in Txns, d \in Docs :
       LET q == staged_mutations[t]
           res == got'[t][d]
       IN (faults = 0 /\ Reads(t, d)) =>
            /\ check_for_own_write(q, d) # {} =>
                 /\ pc'[t] = "body"
                 /\ res.found /\ res.content = hist[t].last[d] /\ res.cas = store[d].cas
            /\ (check_for_own_write(q, d) = {} /\ find_remove(q, d) # {}) =>
                 /\ BeginGet(t, d) => outcome'[t] = Threw(Err("FAIL_DOC_NOT_FOUND"))
                 /\ BeginGetOptional(t, d) => pc'[t] = "body" /\ ~res.found
  ]_vars

\* C13: a remove of a document the same running, unexpired attempt inserted is
\* allowed: the call does not fail, so that the entry can become the removal of
\* the insert and the transaction can commit with the document absent.
C13_RemoveOfOwnInsert ==
  [][\A t \in Txns, d \in Docs :
       (/\ BeginRemove(t, d)
        /\ ~is_done[t] /\ ~has_expired_client_side(t)
        /\ find_insert(staged_mutations[t], d) # {}) => outcome'[t].kind = "running"
  ]_vars

\* C14: an insert of a document for which the queue of the running attempt
\* already holds an entry of any kind (INSERT, REPLACE or REMOVE) fails at once
\* with FAIL_OTHER: no storage step follows and the queue is unchanged.
C14_InsertOnOwnEntryFails ==
  [][\A t \in Txns, d \in Docs :
       (BeginInsert(t, d) /\ ~is_done[t] /\ d \in Queued(t)) =>
          /\ outcome'[t] = Threw(Err("FAIL_OTHER"))
          /\ pc'[t] = "done"
  ]_vars

\* C15: a replace with content v2 of a document the running attempt already
\* inserted or replaced, once staged, leaves a single entry for the document,
\* of the kind it had, whose staged content is v2 and whose CAS is that of the
\* staging write just made.
C15_ReplaceUpdatesEntry ==
  [][\A t \in Txns :
       LET d == cur[t].doc
           own == check_for_own_write(staged_mutations[t], d)
           after == {i \in 1..Len(staged_mutations'[t]) : staged_mutations'[t][i].id = d}
       IN (StageReplace(t) /\ ~is_done[t] /\ own # {} /\ faults' = 0) =>
            /\ after = own
            /\ \A i \in after :
                 /\ staged_mutations'[t][i].type = staged_mutations[t][i].type
                 /\ staged_mutations'[t][i].content = cur[t].content
                 /\ staged_mutations'[t][i].doc.cas = store'[d].cas
  ]_vars

\* C16: when ATR-COMMIT failed as ambiguous and the resolution read of the
\* entry succeeds before expiry: an entry read as COMMITTED lets commit proceed
\* to unstaging without another ATR-COMMIT write; a missing, ABORTED or
\* ROLLED_BACK entry fails commit with FAIL_OTHER and no rollback; only an
\* entry still PENDING sends commit back to ATR-COMMIT.
C16_AmbiguityResolved ==
  [][\A t \in Txns :
       LET st == atr[t].status
       IN (/\ AtrCommitAmbiguityResolution(t)
           /\ faults' = faults
           /\ expiry_overtime_mode[t] \/ ~has_expired_client_side(t)) =>
            /\ st = "COMMITTED" => pc'[t] = AfterAtrCommit(t)
            /\ st \in {"NONE", "ABORTED", "ROLLED_BACK"} =>
                 /\ pc'[t] = "done"
                 /\ outcome[t] = Running => outcome'[t] = Threw(no_rollback(Err("FAIL_OTHER")))
            /\ pc'[t] = "atr_commit" <=> st = "PENDING"
  ]_vars

\* C17: once the ATR-COMMIT write of the commit that run issues has succeeded,
\* no failure of a document's unstage or of ATR-COMPLETE fails the transaction:
\* run ends by returning its result with the attempt marked done, and the only
\* error that may leave it is FAIL_HARD from ATR-COMPLETE, flagged
\* failed_post_commit and no-rollback.
C17_PostCommitFailuresTolerated ==
  \A t \in Txns :
    (Done(t) /\ hist[t].run_commit /\ state[t] \in {"COMMITTED", "COMPLETED"}) =>
       \/ outcome[t] = Returned /\ is_done[t]
       \/ /\ outcome[t] = Threw(failed_post_commit(no_rollback(Err("FAIL_HARD"))))
          /\ ~hist[t].unstage_failed

Classes ==
  {expired(Err("FAIL_EXPIRY")), retry(Err("FAIL_TRANSIENT")), no_rollback(Err("FAIL_HARD")),
   Err("FAIL_DOC_NOT_FOUND")}

\* A step of a get or get_optional of the running attempt t.
GetStep(t) ==
  /\ outcome[t] = Running /\ ~is_done[t]
  /\ \/ \E d \in Docs : BeginGet(t, d) \/ BeginGetOptional(t, d)
     \/ cur[t].op \in {"get", "get_optional"} /\ (GetDoc(t) \/ GetAtr(t))

\* C19: get and get_optional fail alike, FAIL_EXPIRY as expired, FAIL_TRANSIENT
\* as retry, FAIL_HARD as no-rollback, and differ for a missing or hidden
\* document only: get fails with document-not-found, get_optional does not
\* fail (it completes with the empty result).
C19_GetAndGetOptionalAgree ==
  [][\A t \in Txns :
       (GetStep(t) /\ outcome'[t].kind = "threw") =>
          /\ outcome'[t].err \in Classes
          /\ (\E d \in Docs : BeginGetOptional(t, d)) \/ cur[t].op = "get_optional" =>
               outcome'[t].err # Err("FAIL_DOC_NOT_FOUND")
  ]_vars

\* C20: transactions on different documents do not interfere, although their
\* entries are in the same ATR document: with no storage error and within the
\* expiration time, each run executes its body once, commits and returns, and
\* every document it staged then has the staged value; after get(d); remove(d)
\* of an existing d, d is absent.
C20_DisjointDoNotInterfere ==
  \A t \in Txns :
    (Done(t) /\ faults = 0 /\ ~has_expired_client_side(t) /\ hist[t].body_returned) =>
       /\ outcome[t] = Returned
       /\ attempts[t] = 1
       /\ is_done[t]
       /\ Queued(t) # {} => state[t] = "COMPLETED"
       /\ \A d \in Queued(t) : PlainGet(d) = hist[t].last[d]

\* A step of the cleanup worker works on an entry that has expired beyond the
\* safety margin.
CleansExpiredOnly ==
  [][cleaner' # cleaner =>
       has_expired(IF cleaner.phase = "idle" THEN cleaner'.entry ELSE cleaner.entry, TRUE)]_vars

\* A write of cleanup to a document under an entry read as COMMITTED is to a
\* document the attempt of the entry stages, and completes its unstage: the staged
\* content becomes the body (insert, replace) or the document is removed (remove).
CleanupCommits ==
  [][cleaner' # cleaner /\ cleaner.entry.status = "COMMITTED" =>
       \A d \in Docs :
         store'[d] # store[d] =>
           /\ Carries(d, cleaner.txn)
           /\ store'[d].link = NoLink
           /\ IF is_document_being_removed(store[d].link)
              THEN store'[d].st # "live"
              ELSE store'[d].st = "live" /\ store'[d].body = store[d].link.stgd]_vars

\* A write of cleanup to a document under an entry read as ABORTED is to a document
\* the attempt of the entry stages, and rolls it back: a staged insert is removed,
\* any other document keeps its body and loses the xattrs.
CleanupRollsBack ==
  [][cleaner' # cleaner /\ cleaner.entry.status = "ABORTED" =>
       \A d \in Docs :
         store'[d] # store[d] =>
           /\ Carries(d, cleaner.txn)
           /\ store'[d].link = NoLink
           /\ IF store[d].link.op = "insert"
              THEN store'[d].st # "live"
              ELSE store'[d].st = store[d].st /\ store'[d].body = store[d].body]_vars

\* Entry e lists document d among the documents inserted or replaced, among the
\* documents removed, or at all.
ListsWrite(e, d) ==
  \/ \E i \in 1..Len(e.ins) : e.ins[i] = d
  \/ \E i \in 1..Len(e.rep) : e.rep[i] = d

ListsRemove(e, d) == \E i \in 1..Len(e.rem) : e.rem[i] = d

Lists(e, d) == ListsWrite(e, d) \/ ListsRemove(e, d)

\* Document d is staged by attempt t the way entry e lists it: with staged content
\* when listed as inserted or replaced, for removal when listed as removed.
StagedAsListed(e, d, t) ==
  /\ Carries(d, t)
  /\ \/ ListsWrite(e, d) /\ has_staged_content(store[d].link)
     \/ ListsRemove(e, d) /\ is_document_being_removed(store[d].link)

\* Cleanup has read the entry of attempt t, whose run has ended, with the given
\* status, and has written nothing yet.
CleanupBegins(t, status) ==
  /\ Done(t)
  /\ cleaner.txn = t
  /\ cleaner.entry.status = status
  /\ cleaner.phase = "docs"
  /\ cleaner.work = cleanup_docs(cleaner.entry)

C22_RetriesExhausted ==
  /\ [](backoff.always =>
          /\ backoff.calls <= backoff.max_retries + 1
          /\ backoff.pc # "returned"
          /\ (backoff.pc = "exhausted" => backoff.calls = backoff.max_retries + 1))
  /\ (backoff.pc = "call" /\ backoff.always) ~> (backoff.pc = "exhausted")

\* C22, its case: op always raised and the call with 20 retries has ended.
C22_Witness ==
  /\ backoff.always
  /\ backoff.pc = "exhausted"
  /\ backoff.max_retries = MaxRetries
  /\ backoff.calls = MaxRetries + 1

\* The instances checked out, and the threads blocked in get.
CheckedOut == UNION {pool.holds[th] : th \in Threads}

Active(o) ==
  /\ HasEntry(o)
  /\ ~has_expired(atr[o], FALSE)
  /\ atr[o].status \notin {"COMPLETED", "ROLLED_BACK"}

C25_PendingBeforeStaging == async.unannounced = {}

\* A mutation has gone through the selection of the ATR.
Selected(m) == async.op[m].pc \notin {"idle", "select"}

\* C27: once a mutation has gone through the selection, atr_id_ is the ATR of the
\* document of the first mutation that did, that mutation alone selected it and
\* alone issued ATR-PENDING writes; atr_id_, once set, never changes.
C27_AtrSelectedOnce ==
  /\ [](\A m \in Mutations :
          Selected(m) =>
            /\ async.atr_id = atr_id_for_vbucket(vbucket_for_key(async.op[async.first].doc))
            /\ async.selected_by = {async.first}
            /\ async.pending_by \subseteq {async.first})
  /\ [][async.atr_id # 0 => async'.atr_id = async.atr_id]_vars

\* C26: the ATR-PENDING write is idempotent. When it is answered with
\* FAIL_PATH_ALREADY_EXISTS (the entry of this attempt is already there), the
\* attempt goes on as after a successful write: it moves on to the staging write
\* with its state PENDING, and a later rollback of the staged mutations does not
\* return early but goes to the ATR-ABORT write.
C26_PendingIdempotent ==
  /\ [][\A t \in Txns :
          (AtrPending(t) /\ pc'[t] = "stage") => state'[t] = "PENDING"]_vars
  /\ [][\A t \in Txns :
          (BeginRollback(t) /\ Len(staged_mutations[t]) > 0 /\ ~is_done[t])
            => pc'[t] = "atr_abort"]_vars

\* The entries the queue q holds for document d.
EntriesOf(q, d) == {i \in 1..Len(q) : q[i].id = d}

\* Attempt t is inside an insert, replace or remove of document d.
Mutating(t, d) == cur[t].op \in Kinds /\ cur[t].doc = d

\* C28: the staged-mutation queue of an attempt holds at most one entry per
\* document, and once the entry of a document is a REMOVE every further insert,
\* replace or remove of that document by the attempt is rejected: no step of such an
\* operation changes the queue or returns to the body.
C28_QueueCollapse ==
  /\ [](\A t \in Txns : \A d \in Docs : Cardinality(EntriesOf(staged_mutations[t], d)) <= 1)
  /\ [][\A t \in Txns : \A d \in Docs :
          (find_remove(staged_mutations[t], d) # {} /\ Mutating(t, d))
            => /\ staged_mutations'[t] = staged_mutations[t]
               /\ pc'[t] # "body"]_vars
  /\ [][\A t \in Txns : \A d \in Docs :
          (find_remove(staged_mutations[t], d) # {} /\ pc[t] = "body"
             /\ (BeginInsert(t, d) \/ BeginReplace(t, d) \/ BeginRemove(t, d)))
            => /\ staged_mutations'[t] = staged_mutations[t]
               /\ pc'[t] # "body"]_vars

\* Attempt t takes the response of a staging write.
StageStep(t) == StageReplace(t) \/ StageInsert(t) \/ StageRemove(t)

\* The error classes of a staging write that make the whole attempt retry.
RetriedClasses ==
  {"FAIL_DOC_NOT_FOUND", "FAIL_DOC_ALREADY_EXISTS", "FAIL_CAS_MISMATCH", "FAIL_TRANSIENT",
   "FAIL_AMBIGUOUS"}

\* C29: a staging write of replace, insert or remove that does not succeed fails
\* the operation, with the queue unchanged, by one policy: the error is flagged
\* retry for FAIL_DOC_NOT_FOUND, FAIL_DOC_ALREADY_EXISTS, FAIL_CAS_MISMATCH,
\* FAIL_TRANSIENT and FAIL_AMBIGUOUS, flagged expired with expiry-overtime mode set
\* for FAIL_EXPIRY, and flagged no-rollback for FAIL_HARD.
C29_StagingErrorPolicy ==
  [][\A t \in Txns :
       (StageStep(t) /\ outcome[t] = Running /\ pc'[t] # "body")
         => /\ pc'[t] = "done"
            /\ outcome'[t].kind = "threw"
            /\ staged_mutations'[t] = staged_mutations[t]
            /\ LET e == outcome'[t].err
               IN /\ e.ec \in RetriedClasses => e.retry
                  /\ e.ec = "FAIL_EXPIRY" => (e.expired /\ expiry_overtime_mode'[t])
                  /\ e.ec = "FAIL_HARD" => e.no_rollback
  ]_vars

\* The body of t calls get, get_optional, insert, replace or remove of d, or commit
\* is called by the body or by run.
OperationStarts(t) ==
  \/ \E d \in Docs : BeginGet(t, d) \/ BeginGetOptional(t, d)
  \/ \E d \in Docs : BeginInsert(t, d) \/ BeginReplace(t, d) \/ BeginRemove(t, d)
  \/ BeginCommit(t)
  \/ (BodyReturns(t) /\ ~is_done[t])

\* The ATR-COMMIT write of attempt t is applied.
AtrCommitWritten(t) == atr[t].status # "COMMITTED" /\ atr'[t].status = "COMMITTED"

\* C30: an operation (get, insert, replace, remove, commit) that starts when the
\* transaction has expired sets expiry-overtime mode and fails with an error flagged
\* expired, with rollback allowed and without retry; it sends no write. The
\* ATR-COMMIT write is sent by a commit only, so the entry of an attempt that had
\* expired when commit began never becomes COMMITTED.
C30_ExpiredBeforeOperation ==
  /\ [][\A t \in Txns :
          (OperationStarts(t) /\ has_expired_client_side(t) /\ ~is_done[t])
            => /\ expiry_overtime_mode'[t]
               /\ pc'[t] = "done"
               /\ outcome'[t] = Threw(expired(Err("FAIL_EXPIRY")))
               /\ store' = store /\ atr' = atr
               /\ staged_mutations' = staged_mutations]_vars
  /\ [][\A t \in Txns :
          AtrCommitWritten(t) => (cur[t].op = "commit" /\ pc[t] = "atr_commit")]_vars

\* Attempt t is inside rollback: at the ATR-ABORT write, the unstaging of its
\* documents or the ATR-ROLLBACK-COMPLETE write.
InRollback(t) == pc[t] \in {"atr_abort", "rb_unstage", "atr_rollback_complete"}

\* Attempt t sends no ATR write of rollback any more: rollback went on to its next
\* step or ended.
AtrWriteOver(t) == pc'[t] # pc[t]

\* The error of a rollback that fails in expiry-overtime mode.
ExpiredInRollback == expired(no_rollback(Err("FAIL_EXPIRY")))

CommitStarts(t) == BeginCommit(t) \/ (BodyReturns(t) /\ ~is_done[t])

\* The step of attempt t sends no request: no document and no ATR entry changes and
\* no request of the attempt is pending afterwards.
NothingSent(t) ==
  /\ store' = store
  /\ atr' = atr
  /\ pc'[t] \in {"body", "done"}

IsStaged(id) == staging.xattrs[id] # NoPointer

\* C33: for every document the attempt staged, in whatever bucket and collection
\* it lives, txn.atr.id, txn.atr.bkt and txn.atr.coll name the ATR document of the
\* attempt: the selected key in _default._default of the bucket of the first
\* mutated document.
C33_PointerNamesAtr ==
  \A id \in DocumentIds :
    IsStaged(id) =>
      /\ staging.xattrs[id].id = staging.atr_id.key
      /\ staging.xattrs[id].bkt = staging.atr_id.bkt
      /\ staging.xattrs[id].coll = "_default._default"

\* C35: removing an attempt's entry from the ATR document removes only the
\* sub-tree of that attempt: an entry disappears from the ATR document only in
\* the ATR-COMPLETE or ATR-ROLLBACK-COMPLETE write of its own attempt, or in the
\* removal by a cleanup that works on this very entry; the entries of all other
\* attempts in the same ATR document stay.
C35_RemovesOwnEntryOnly ==
  [][\A u \in Txns :
       (HasEntry(u) /\ atr'[u].status = "NONE") =>
          \/ AtrComplete(u)
          \/ AtrRollbackComplete(u)
          \/ cleanup_entry /\ cleaner.txn = u
  ]_vars

\* A step in which rollback() of the attempt of t returns to its caller without
\* raising.
RollbackReturns(t) ==
  /\ BeginRollback(t) \/ Rollback(t)
  /\ ~hist[t].rollback_ok /\ hist'[t].rollback_ok

\* C38: when rollback() of an attempt that staged mutations returns without
\* raising, the attempt is done, its entry is removed from the ATR and its state
\* is ROLLED_BACK: no failure of ATR-ABORT, of the rollback unstage or of
\* ATR-ROLLBACK-COMPLETE lets rollback return with the attempt open or ABORTED.
C38_RollbackReturnsDone ==
  [][\A t \in Txns :
       (RollbackReturns(t) /\ Len(staged_mutations[t]) > 0) =>
          /\ is_done'[t]
          /\ atr'[t].status = "NONE"
          /\ state'[t] = "ROLLED_BACK"
  ]_vars

\* Entry e has the smallest min_start_time_ of the entries q and itself.
Earliest(e, q) ==
  \A o \in q : cleanup_queue.min_start_time_[e] <= cleanup_queue.min_start_time_[o]

\* What one pop does: it returns a value only if the queue is not empty and, with
\* check_time, the earliest entry is ready; the value is the queued entry with the
\* smallest min_start_time_, which leaves the queue; a pop that returns no value
\* leaves the queue as it is, and happens only on an empty queue or, with
\* check_time, when the earliest entry is not ready.
PopReturnsEarliest ==
  [][\A w \in Workers :
       /\ PopReturn(w) =>
            LET e == cleanup_queue.top[w]
            IN /\ e \in Entries
               /\ cleanup_queue.made[e] = "pushed"
               /\ e \notin cleanup_queue.queue_
               /\ Earliest(e, cleanup_queue.queue_)
               /\ cleanup_queue.check_time[w] => ready(e)
               /\ cleanup_queue'.queue_ = cleanup_queue.queue_
       /\ PopTest(w) =>
            LET q == cleanup_queue.queue_
                waits == cleanup_queue.check_time[w] /\ \A e \in q : Earliest(e, q) => ~ready(e)
            IN /\ cleanup_queue'.queue_ = q /\ cleanup_queue'.log = cleanup_queue.log
               /\ cleanup_queue'.pc[w] = "idle" <=> (q = {} \/ waits)
       /\ PopPop(w) =>
            \E e \in cleanup_queue.queue_ :
              /\ Earliest(e, cleanup_queue.queue_)
              /\ cleanup_queue'.queue_ = cleanup_queue.queue_ \ {e}
  ]_vars

\* The places in the log where a pop returned an entry.
Popped == {i \in 1..Len(cleanup_queue.log) : cleanup_queue.log[i].op = "pop"}

\* The pop recorded at place j of the log did not return an entry with an earlier
\* min_start_time_ than the pop at place i.
InOrder(i, j) ==
  cleanup_queue.min_start_time_[cleanup_queue.log[i].e]
    <= cleanup_queue.min_start_time_[cleanup_queue.log[j].e]

\* C36 as stated: pop returns the queued entry with the smallest min_start_time,
\* with check_time only if that entry is ready and otherwise nothing with the queue
\* unchanged, nothing on an empty queue; and the entries pops return are in
\* non-decreasing min_start_time order.
C36_PopsInOrder ==
  /\ PopReturnsEarliest
  /\ [](\A i \in Popped : \A j \in Popped : i < j => InOrder(i, j))

\* C36 amended: pop returns the queued entry with the smallest min_start_time,
\* with check_time only if that entry is ready and otherwise nothing with the queue
\* unchanged, nothing on an empty queue; pops between which nothing is pushed
\* return entries in non-decreasing min_start_time order.
C36_PopsInOrderBetweenPushes ==
  /\ PopReturnsEarliest
  /\ [](\A i \in Popped : \A j \in Popped :
          (i < j /\ \A k \in i..j : k \in Popped) => InOrder(i, j))

\* Two entries were in the queue together, the one with the later min_start_time_
\* pushed first, and two pops returned them, the earlier one first.
C36_Witness ==
  \E p1, p2, i, j \in 1..Len(cleanup_queue.log) :
    /\ p1 < p2 /\ p2 < i /\ i < j
    /\ cleanup_queue.log[p1].op = "push" /\ cleanup_queue.log[p2].op = "push"
    /\ i \in Popped /\ j \in Popped
    /\ cleanup_queue.log[i].e = cleanup_queue.log[p2].e
    /\ cleanup_queue.log[j].e = cleanup_queue.log[p1].e
    /\ ~InOrder(j, i)

\* The statements of push and pop after the lock is taken.
Inside == {"emplace", "push", "test", "copy", "pop", "return"}

\* The places of the log where entry e was pushed (op "push") or returned by a
\* pop (op "pop").
Logged(op, e) ==
  {i \in 1..Len(cleanup_queue.log) : cleanup_queue.log[i] = [op |-> op, e |-> e]}

\* C37: push and pop hold the mutex of the queue from their first statement to
\* their return, so however calls of push and pop interleave, an entry that was
\* pushed is returned by at most one pop, no entry is lost (between calls the queue
\* holds the entries pushed and not yet returned, so its size is pushes minus
\* successful pops), and the entry a pop with check_time returns is the entry
\* whose readiness it tested.
C37_MutexHeld ==
  /\ [](\A w \in Workers : cleanup_queue.pc[w] \in Inside => cleanup_queue.mutex_ = w)
  /\ [](\A e \in Entries : /\ Cardinality(Logged("pop", e)) <= 1
                           /\ Logged("pop", e) # {} => Logged("push", e) # {})
  /\ [](cleanup_queue.mutex_ = "-" =>
          /\ cleanup_queue.queue_ = {e \in Entries : Logged("push", e) # {} /\ Logged("pop", e) = {}}
          /\ Cardinality(cleanup_queue.queue_) =
               Len(cleanup_queue.log) - 2 * Cardinality(Popped))
  /\ [][\A w \in Workers :
          (PopReturn(w) /\ cleanup_queue.check_time[w]) =>
             cleanup_queue.top[w] = cleanup_queue.checked[w]]_vars

\* A pop with check_time has tested and removed the top and is about to return it
\* while the other thread waits for the mutex in its own pop, with an entry left
\* in the queue.
C37_Witness ==
  \E w, o \in Workers :
    /\ cleanup_queue.pc[w] = "return" /\ cleanup_queue.check_time[w]
    /\ cleanup_queue.top[w] \in Entries
    /\ cleanup_queue.pc[o] = "lock_pop"
    /\ cleanup_queue.queue_ # {}

\* The fetched document doc with txn.op.crc32 crc carries a staged write of the
\* attempt under cleanup and, for the functions that require it, a txn.op.crc32
\* equal to the checksum of its body.
CarriesAndMatches(kind, doc, crc) ==
  /\ doc.st # "none"
  /\ doc.link.txn = Cleaned
  /\ doc.link.stgd # 0 \/ doc.link.op = "remove"
  /\ kind \in {"commit_docs", "remove_docs", "remove_docs_staged_for_removal"} =>
       (crc # -1 /\ crc = crc32(doc.body))

\* A step of the cleanup runs, not of another party or of the abandoned attempt.
RunStep == sweep.set /\ sweep'.others = sweep.others

\* C34: cleanup of an entry modifies a document only after it fetched it and found
\* a staged write with the attempt id of the entry and, where a CRC match is
\* required, a staged CRC equal to the CRC of the document; a fetched document that
\* fails a check or has no staged content, and a document that is not found, is
\* skipped, and the run goes on with the remaining documents.
C34_ModifiesCheckedOnly ==
  [][\A r \in Runs :
       LET run == sweep.run[r]
           task == Head(run.work)
           doc == sweep.docs[task.id]
           crc == sweep.crc[task.id]
           goes_on == /\ sweep'.run[r].work = Tail(run.work)
                      /\ sweep'.run[r].pc = IF Tail(run.work) = <<>> THEN "entry" ELSE "lookup"
       IN /\ (RunStep /\ sweep'.docs # sweep.docs) =>
               \E q \in Runs :
                 /\ DoPerDocCall(q)
                 /\ sweep.run[q].fetched.link.txn = Cleaned
                 /\ \A d \in Docs :
                      sweep'.docs[d] # sweep.docs[d] => d = Head(sweep.run[q].work).id
          /\ DoPerDocLookup(r) =>
               /\ sweep'.run[r].pc = "call" =>
                    (CarriesAndMatches(task.kind, doc, crc) /\ sweep'.run[r].fetched = doc)
               /\ (sweep'.faults = sweep.faults /\ ~CarriesAndMatches(task.kind, doc, crc)) =>
                    goes_on
          /\ (DoPerDocCall(r) /\ sweep'.faults = sweep.faults
                /\ (sweep.docs[task.id].st # "live" /\ request(task.kind, run.fetched) \in {"set_doc", "remove"})) =>
               (goes_on /\ sweep'.docs = sweep.docs)
  ]_vars

\* A run has handled every document and removed the entry: it skipped document a,
\* whose body another writer replaced so that its staged CRC no longer matches, and
\* it wrote to document b.
C34_Witness ==
  \E r \in Runs :
    /\ sweep.run[r].pc = "done" /\ sweep.run[r].wrote > 0
    /\ sweep.docs["a"].link.txn = Cleaned
    /\ sweep.crc["a"] # crc32(sweep.docs["a"].body)
    /\ sweep.docs["b"].link = NoLink /\ sweep.unstaged["b"] > 0
    /\ sweep.unstaged["a"] = 0

\* Run r stops early in this step: the forward-compat check fails, or the lookup
\* or the write of a document raises.
StopsEarly(r) ==
  /\ sweep.run[r].pc # "stopped"
  /\ sweep'.run[r].pc = "stopped"
  /\ sweep'.run[r].stopped \in {"forward_compat", "lookup", "call"}

\* C39: a cleanup run that stops early, at the forward-compat check of
\* CLEANUP_ENTRY or at an error other than document-not-found while it processes a
\* document, does not remove the entry from the ATR, which only a run that handled
\* all the documents does, so the entry is there for a later run; when the
\* forward-compat check fails, no document is modified.
C39_EarlyStopKeepsEntry ==
  /\ [][\A r \in Runs :
          /\ StopsEarly(r) => sweep'.entry = sweep.entry
          /\ (StopsEarly(r) /\ sweep'.run[r].stopped = "forward_compat") =>
               (sweep'.docs = sweep.docs /\ sweep.run[r].wrote = 0)
          /\ (sweep.run[r].pc = "stopped" /\ sweep.run[r].stopped # "entry") =>
               (sweep'.run[r] = sweep.run[r]
                  /\ (sweep'.entry # sweep.entry => \E q \in Runs \ {r} : CleanupEntry(q)))
          /\ (sweep.set /\ sweep'.entry # sweep.entry) =>
               \E q \in Runs : CleanupEntry(q) /\ sweep.run[q].work = <<>>
     ]_vars
  /\ [](sweep.set /\ ~sweep.fc_ok =>
          /\ sweep.entry.status # "NONE"
          /\ \A d \in Docs : sweep.unstaged[d] = 0
          /\ \A r \in Runs : sweep.run[r].pc \in {"idle", "stopped"})
  /\ []((sweep.set /\ \A r \in Runs : sweep.run[r].stopped \in {"forward_compat", "lookup", "call"})
          => sweep.entry.status # "NONE")

\* Both runs stopped early, one of them at the write of a document that failed
\* with no injected error after it had written to another document; the entry is
\* in the ATR.
C39_Witness ==
  /\ \E r \in Runs :
       sweep.run[r].stopped = "call" /\ sweep.run[r].wrote > 0
  /\ \A r \in Runs : sweep.run[r].pc = "stopped"
  /\ sweep.faults = 0
  /\ sweep.entry.status \in {"COMMITTED", "ABORTED"}

\* C40: when two cleanup runs unstage the same COMMITTED or ABORTED attempt, each
\* document is unstaged once, and once another party has written to a document
\* after its unstage, no cleanup run modifies that document: the write is not
\* overwritten, removed or undone, also when the staged write is an insert that
\* cleanup commits with a plain insert.
C40_UnstagedOnce ==
  /\ [](\A d \in Docs : sweep.unstaged[d] <= 1)
  /\ [][\A r \in Runs : \A d \in Docs :
          (DoPerDocCall(r) /\ sweep'.docs[d] # sweep.docs[d]) => ~sweep.later[d]]_vars

====
